---- MODULE Spec2Model ----
(***************************************************************************)
(* Agent execution engine of exorous_code: the approval/policy engine      *)
(* (safety/approval.py), the tool invocation pipeline (tools/registry.py), *)
(* the completion transport's event grammar (client/llm_client.py) and the *)
(* agentic loop (agent/agent.py).                                          *)
(***************************************************************************)
EXTENDS Integers, Sequences, FiniteSets, TLC

VARIABLES
    \* safety/approval.py, ApprovalManager
    approval_policy,   \* ApprovalManager.approval_policy (Config.approval)
    has_callback,      \* ApprovalManager.confirmation_callback is not None
    allowed_tools,     \* Config.allowed_tools, as a list; <<>> when it is None
    ctx,               \* the ApprovalContext handed to check_approval
    decision,          \* the ApprovalDecision check_approval returned, or NoValue
    \* tools/registry.py, one call of ToolRegistry.invoke
    ipc,               \* position inside invoke
    inv,               \* its arguments: name, params, approval_manager given
    confirmation,      \* what tool.get_confirmation returned
    approved,          \* what request_confirmation returned: <<>> until it is called
    fault,             \* the exception caught at registry.py 134: <<>> or <<message>>
    process,           \* shell.py 97-117: what execute did with the subprocess
    result,            \* the ToolResult invoke returns
    after_tool_result, \* the result trigger_after_tool was given, or None
    steps,             \* what this call of invoke has done so far, in order
    \* context/manager.py, ContextManager
    messages,          \* ContextManager._messages
    latest_usage,      \* ContextManager._latest_usage
    total_usage,       \* ContextManager.total_usage
    \* context/loop_detector.py, LoopDetector
    history,           \* LoopDetector._history
    \* client/llm_client.py, one call of chat_completion
    attempt,           \* the retry loop's attempt
    slept,             \* the wait_time of each asyncio.sleep of the call, in order
    attempt_events,    \* the events the current attempt's _stream_response yielded
    \* agent/agent.py, one call of Agent.run
    pc,                \* position in run / _agentic_loop
    max_turns,         \* Config.max_turns
    turn_num,          \* the for loop's turn_num
    response_text,     \* the turn's response_text, as the list of its fragments
    tool_calls,        \* the turn's tool_calls
    usage,             \* the turn's usage
    idx,               \* index in tool_calls of the call being executed
    tool_call_results, \* the turn's tool_call_results
    model_calls,       \* calls of client.chat_completion made by the loop
    loop_detection_error, \* the turn's loop_detection_error (agent.py 155)
    reported_usage,    \* provider side: the sum of the usage it has reported
    \* agent/session.py, Session; agent/persistence.py, PersistenceManager
    turn_count,        \* Session.turn_count
    session_file,      \* the session's JSON file in sessions_dir, or None
    events,            \* the AgentEvents run has yielded, in order
    \* tools/mcp/mcp_manager.py, MCPManager
    mcp_servers,       \* Config.mcp_servers: the servers configured and enabled
    clients,           \* MCPManager._clients: name -> status, tools, connection task
    initialized,       \* MCPManager._initialized
    registered         \* <<the MCP tools register_tools gave the registry>>, or <<>>

approvalVars == <<approval_policy, has_callback, allowed_tools, ctx, decision>>
invokeVars == <<ipc, inv, confirmation, approved, fault, process, result, after_tool_result,
               steps>>
contextVars == <<messages, latest_usage, total_usage>>
turnVars == <<response_text, tool_calls, usage, idx, tool_call_results>>
loopVars == <<pc, max_turns, turn_num, turnVars, model_calls, events, attempt, history,
              loop_detection_error, reported_usage, turn_count, session_file, slept, attempt_events>>
mcpVars == <<mcp_servers, clients, initialized, registered>>
vars == <<approvalVars, invokeVars, contextVars, loopVars, mcpVars>>

(* Python's None: NoValue where the other values are strings, None where   *)
(* they are records.                                                       *)
NoValue == "<none>"
None == [none |-> TRUE]

(* No MCP server is configured and initialize was not called.             *)
McpIdle ==
    /\ mcp_servers = {}
    /\ clients = <<>>
    /\ initialized = FALSE
    /\ registered = <<>>

-----------------------------------------------------------------------------
(* config/config.py: ApprovalPolicy *)

ON_REQUEST == "on-request"
ON_FAILURE == "on-failure"
AUTO == "auto"
AUTO_EDIT == "auto-edut"
NEVER == "never"
YOLO == "yolo"

ApprovalPolicy == {ON_REQUEST, ON_FAILURE, AUTO, AUTO_EDIT, NEVER, YOLO}

(* safety/approval.py: ApprovalDecision *)

APPROVED == "approved"
REJECTED == "rejected"
NEEDS_CONFIRMATION == "needs_confirmation"

ApprovalDecision == {APPROVED, REJECTED, NEEDS_CONFIRMATION}

-----------------------------------------------------------------------------
(* Commands.  The regular-expression searches of is_dangerous_command and  *)
(* is_safe_command are tabulated over a fixed alphabet of command lines:   *)
(* each table holds exactly the commands of the alphabet for which         *)
(* re.search(pattern, command, re.IGNORECASE) succeeds for some pattern of *)
(* the list.  CmdNone is Python's None; "" is the empty command line.      *)

CmdNone == "<None>"

Commands ==
    { "rm -rf /",               \* dangerous (rm\s+(-rf?|--recursive)\s+[/~])
      "RM -RF /",               \* dangerous (IGNORECASE)
      "chmod -R 777 /",         \* dangerous (chmod\s+(-R\s+)?777\s+[/~])
      "cat notes.txt; reboot",  \* dangerous (reboot) and safe (^cat)
      "ls -la",                 \* safe (^ls)
      "git status",             \* safe (^git\s+status)
      "make build",             \* neither
      "pip install x",          \* neither
      "" }                      \* neither; falsy

DangerousMatches ==
    {"rm -rf /", "RM -RF /", "chmod -R 777 /", "cat notes.txt; reboot"}

SafeMatches ==
    {"cat notes.txt; reboot", "ls -la", "git status"}

is_dangerous_command(command) == command \in DangerousMatches

is_safe_command(command) == command \in SafeMatches

(* Paths.  cwd is /work; is_relative_to(cwd) holds for the paths below it. *)

Paths == {"/work/a.txt", "/work/sub/b.txt", "/etc/passwd", "/tmp/x"}

is_relative_to_cwd(path) == path \in {"/work/a.txt", "/work/sub/b.txt"}

MaxPaths == 2

PathLists == UNION {[1..n -> Paths] : n \in 0..MaxPaths}

(* safety/approval.py: ApprovalContext (tool_name and params do not enter  *)
(* the decision and are left out).                                         *)

ApprovalContexts ==
    [is_mutating : BOOLEAN,
     affected_paths : PathLists,
     command : Commands \cup {CmdNone},
     is_dangerous : BOOLEAN]

Truthy(command) == command # CmdNone /\ command # ""

-----------------------------------------------------------------------------
(* ApprovalManager._assess_command_safety *)

_assess_command_safety(policy, command) ==
    IF policy = YOLO THEN APPROVED
    ELSE IF is_dangerous_command(command) THEN REJECTED
    ELSE IF policy = NEVER
        THEN (IF is_safe_command(command) THEN APPROVED ELSE REJECTED)
    ELSE IF policy \in {AUTO, ON_FAILURE} THEN APPROVED
    ELSE IF policy = AUTO_EDIT
        THEN (IF is_safe_command(command) THEN APPROVED ELSE NEEDS_CONFIRMATION)
    ELSE IF is_safe_command(command) THEN APPROVED
    ELSE NEEDS_CONFIRMATION

(* The loop over context.affected_paths: the first path outside cwd        *)
(* returns NEEDS_CONFIRMATION; NoValue when the loop runs to its end.      *)

RECURSIVE PathLoop(_, _)
PathLoop(paths, i) ==
    IF i > Len(paths) THEN NoValue
    ELSE IF is_relative_to_cwd(paths[i]) THEN PathLoop(paths, i + 1)
    ELSE NEEDS_CONFIRMATION

(* ApprovalManager.check_approval *)

(* A check_approval that does not look at context.is_dangerous. *)
CheckApprovalIgnoringFlag(policy, c) ==
    LET tail ==
            IF PathLoop(c.affected_paths, 1) # NoValue
                THEN PathLoop(c.affected_paths, 1)
            ELSE APPROVED
    IN  IF Truthy(c.command)
            THEN (IF _assess_command_safety(policy, c.command) # NEEDS_CONFIRMATION
                    THEN _assess_command_safety(policy, c.command)
                    ELSE tail)
            ELSE tail

CheckApprovalAfterCommand(policy, c) ==
    LET tail ==
            IF PathLoop(c.affected_paths, 1) # NoValue
                THEN PathLoop(c.affected_paths, 1)
            ELSE IF c.is_dangerous
                THEN (IF policy = YOLO THEN APPROVED ELSE NEEDS_CONFIRMATION)
            ELSE APPROVED
    IN  IF Truthy(c.command)
            THEN (IF _assess_command_safety(policy, c.command) # NEEDS_CONFIRMATION
                    THEN _assess_command_safety(policy, c.command)
                    ELSE tail)
            ELSE tail

CheckApprovalNoFastPath(policy, c) ==
    CheckApprovalAfterCommand(policy, c)

check_approval(policy, c) ==
    IF ~c.is_mutating THEN APPROVED
    ELSE CheckApprovalAfterCommand(policy, c)

(* ApprovalManager.request_confirmation: answer is the callback's result   *)
(* when a callback is configured.                                          *)

(* A manager that declines when it has no callback to ask. *)
DeclineWithoutCallback(callback, answer) ==
    IF callback THEN answer ELSE FALSE

request_confirmation(callback, answer) ==
    IF callback THEN answer ELSE TRUE

-----------------------------------------------------------------------------
(* Tools.  The registry holds the built-in tools below; params are the     *)
(* structured key/value maps the model sends.                              *)

READ == "read"
WRITE == "write"
SHELL == "shell"
NETWORK == "network"
MEMORY == "memory"
MCP == "mcp"

RegisteredTools == {"list_dir", "shell", "edit", "write_file"}

ToolKind(name) ==
    CASE name = "list_dir" -> READ
      [] name = "shell" -> SHELL
      [] name = "edit" -> WRITE
      [] name = "write_file" -> WRITE

(* The required fields of each tool's pydantic schema (ListDirParams,      *)
(* ShellParams, EditParams, WriteFileParams).                              *)

RequiredFields(name) ==
    CASE name = "list_dir" -> {}
      [] name = "shell" -> {"command"}
      [] name = "edit" -> {"path", "new_string"}
      [] name = "write_file" -> {"path", "content"}

(* Config.allowed_tools: not set, or the list that confines a sub-agent to *)
(* read-only tools (subagents.py 128, 139, for the tools of the model).    *)

AllowedToolLists == {<<>>, <<"list_dir">>}

(* ToolRegistry.get_tools: the tools whose schemas are sent to the model.  *)

get_tools(allowed) ==
    IF allowed # <<>>
        THEN {t \in RegisteredTools : \E i \in 1..Len(allowed) : allowed[i] = t}
        ELSE RegisteredTools

(* ToolRegistry.get *)

get(name) == IF name \in RegisteredTools THEN name ELSE NoValue

(* Tool.validate_params: one message per invalid field; the messages are   *)
(* identified by the field they name.                                      *)

(* ShellParams.timeout: Field(120, ge=1, le=600); the other values of the   *)
(* alphabet have the type their field declares.                            *)
ValidValue(name, f, v) ==
    (name = "shell" /\ f = "timeout") => v \in 1..600

validate_params(name, params) ==
    {f \in RequiredFields(name) : f \notin DOMAIN params}
        \cup {f \in DOMAIN params : ~ValidValue(name, f, params[f])}

(* Tool.is_mutating *)

is_mutating(name) == ToolKind(name) \in {WRITE, SHELL, NETWORK, MEMORY}

(* resolve_path(cwd, path) for the path parameters of the model.           *)

resolve_path(path) ==
    CASE path = "a.txt" -> "/work/a.txt"
      [] path = "/etc/passwd" -> "/etc/passwd"

(* shell.py BLOCKED_COMMANDS: the commands of the alphabet that contain a  *)
(* blocked entry as written (get_confirmation) and after lower().strip()   *)
(* (execute).                                                              *)

BlockedAsWritten == {"rm -rf /", "chmod -R 777 /", "cat notes.txt; reboot"}

BlockedLowered == {"rm -rf /", "RM -RF /", "cat notes.txt; reboot"}

(* ToolResult.error_result / success_result, with to_model_output.         *)

error_result(error) ==
    [success |-> FALSE, error |-> error, content |-> <<"Error: ", error>>]

(* A result that carries the first validation error only. *)
FirstErrorOnly(errors) ==
    [success |-> FALSE, error |-> "Invalid parameters",
     content |-> <<"Error: ", "Invalid parameters">>,
     validation_errors |-> {CHOOSE f \in errors : TRUE}]

(* The result of a failed validation, with metadata["validation_errors"]. *)
invalid_result(errors) ==
    [success |-> FALSE, error |-> "Invalid parameters",
     content |-> <<"Error: ", "Invalid parameters">>,
     validation_errors |-> errors]

success_result(output) ==
    [success |-> TRUE, error |-> NoValue, content |-> <<output>>]

ToolOutputs == {"large output"}

(* The calls the model can request.                                        *)

ShellCalls ==
    {[name |-> "shell", params |-> [command |-> c]] : c \in Commands \ {""}}

InvokeCalls ==
    ShellCalls \cup
    { [name |-> "list_dir", params |-> [path |-> "."]],
      [name |-> "shell", params |-> [cmd |-> "ls -la"]],
      [name |-> "edit", params |-> [path |-> "a.txt", new_string |-> "x"]],
      [name |-> "edit", params |-> [path |-> "/etc/passwd", new_string |-> "x"]],
      [name |-> "edit", params |-> [path |-> "a.txt"]],
      [name |-> "edit", params |-> [old_string |-> "y"]],
      [name |-> "shell", params |-> [command |-> "ls", timeout |-> 0]],
      [name |-> "shell", params |-> [command |-> "ls", timeout |-> 30]],
      [name |-> "write_file", params |-> [path |-> "a.txt", content |-> "x"]],
      [name |-> "write_file", params |-> [path |-> "/etc/passwd", content |-> "x"]],
      [name |-> "nope", params |-> [path |-> "."]] }

-----------------------------------------------------------------------------
(* ToolRegistry.invoke, one action per stretch between two awaits.         *)

InvokeIdle ==
    /\ ipc = "idle"
    /\ inv = None
    /\ confirmation = None
    /\ approved = <<>>
    /\ fault = <<>>
    /\ process = <<>>
    /\ result = None
    /\ after_tool_result = None
    /\ steps = <<>>

(* Entering invoke with fresh locals. *)
EnterInvoke(call, manager) ==
    /\ ipc' = "resolve"
    /\ inv' = [name |-> call.name, params |-> call.params, approval_manager |-> manager]
    /\ confirmation' = None
    /\ approved' = <<>>
    /\ fault' = <<>>
    /\ process' = <<>>
    /\ result' = None
    /\ after_tool_result' = None
    /\ steps' = <<>>
    /\ ctx' = None
    /\ decision' = NoValue

(* A return whose after_tool notification is fired without the result. *)
ReturnAfterBlindHook(r, done) ==
    /\ result' = r
    /\ after_tool_result' = None
    /\ steps' = steps \o done \o <<"after_tool">>
    /\ ipc' = "returned"

(* return result, after `await hook_system.trigger_after_tool(...)`. *)
ReturnAfterHook(r, done) ==
    /\ result' = r
    /\ after_tool_result' = r
    /\ steps' = steps \o done \o <<"after_tool">>
    /\ ipc' = "returned"

\* tool = self.get(name); unknown tool -> error result
InvResolve ==
    /\ ipc = "resolve"
    /\ IF get(inv.name) = NoValue
        THEN ReturnAfterHook(error_result("Unknown tool"), <<"get">>)
        ELSE /\ ipc' = "validate"
             /\ steps' = steps \o <<"get">>
             /\ UNCHANGED <<result, after_tool_result>>
    /\ UNCHANGED <<mcpVars, approvalVars, inv, confirmation, approved, fault, process, contextVars, loopVars>>

\* validation_errors = tool.validate_params(params)
InvValidate ==
    /\ ipc = "validate"
    /\ IF validate_params(inv.name, inv.params) # {}
        THEN ReturnAfterHook(
                invalid_result(validate_params(inv.name, inv.params)),
                <<"validate_params">>)
        ELSE /\ ipc' = "before"
             /\ steps' = steps \o <<"validate_params">>
             /\ UNCHANGED <<result, after_tool_result>>
    /\ UNCHANGED <<mcpVars, approvalVars, inv, confirmation, approved, fault, process, contextVars, loopVars>>

\* await hook_system.trigger_before_tool(name, params)
InvBeforeTool ==
    /\ ipc = "before"
    /\ steps' = steps \o <<"before_tool">>
    /\ ipc' = IF inv.approval_manager THEN "confirm" ELSE "execute"
    /\ UNCHANGED <<mcpVars, approvalVars, inv, confirmation, approved, fault, process, result,
                   after_tool_result, contextVars, loopVars>>

(* What tool.get_confirmation can do for the invocation: return None,      *)
(* return a ToolConfirmation, or raise.                                    *)
(*   base Tool: None unless the tool is mutating;                          *)
(*   ShellTool: command from params, is_dangerous iff a blocked entry is   *)
(*     contained in it;                                                    *)
(*   EditTool: affected_paths = [path]; reading an existing file can raise *)
(*     (path.read_text on a directory or on bytes that are not UTF-8);     *)
(*   WriteFileTool: affected_paths = [path], is_dangerous iff the file     *)
(*     exists; read errors are swallowed.                                  *)

Raises == [raises |-> TRUE]

Confirmation(paths, command, dangerous) ==
    [affected_paths |-> paths, command |-> command, is_dangerous |-> dangerous]

get_confirmation(name, params) ==
    CASE name = "list_dir" -> {None}
      [] name = "shell" ->
            {Confirmation(<<>>, params.command, params.command \in BlockedAsWritten)}
      [] name = "edit" ->
            {Confirmation(<<resolve_path(params.path)>>, CmdNone, FALSE), Raises}
      [] name = "write_file" ->
            {Confirmation(<<resolve_path(params.path)>>, CmdNone, exists) :
                exists \in BOOLEAN}

\* confirmation = await tool.get_confirmation(invocation), and the
\* ApprovalContext built from it
InvGetConfirmation ==
    /\ ipc = "confirm"
    /\ \E c \in get_confirmation(inv.name, inv.params) :
        /\ confirmation' = c
        /\ steps' = steps \o <<"get_confirmation">>
        /\ IF c = Raises
            THEN ipc' = "raised" /\ UNCHANGED ctx
            ELSE IF c = None
                THEN ipc' = "execute" /\ UNCHANGED ctx
                ELSE /\ ipc' = "approve"
                     /\ ctx' = [is_mutating |-> is_mutating(inv.name),
                                affected_paths |-> c.affected_paths,
                                command |-> c.command,
                                is_dangerous |-> c.is_dangerous]
    /\ UNCHANGED <<mcpVars, approval_policy, has_callback, allowed_tools, decision, inv,
                   approved, fault, process, result,
                   after_tool_result, contextVars, loopVars>>

(* An invoke that goes on whatever request_confirmation returned. *)
ProceedsUnconfirmed(ok) == TRUE

(* registry.py 125-130: invoke goes on to execute iff request_confirmation *)
(* returned true.                                                          *)
Proceeds(ok) == ok

\* decision = await approval_manager.check_approval(context), and
\* request_confirmation when the decision is NEEDS_CONFIRMATION
InvCheckApproval ==
    /\ ipc = "approve"
    /\ decision' = check_approval(approval_policy, ctx)
    /\ \/ /\ decision' = REJECTED
          /\ ReturnAfterHook(error_result("Operation rejected by safety policy"),
                             <<"check_approval">>)
          /\ UNCHANGED approved
       \/ /\ decision' = NEEDS_CONFIRMATION
          /\ \E answer \in BOOLEAN :
                /\ approved' = <<request_confirmation(has_callback, answer)>>
                /\ IF Proceeds(request_confirmation(has_callback, answer))
                    THEN /\ ipc' = "execute"
                         /\ steps' = steps \o <<"check_approval", "request_confirmation">>
                         /\ UNCHANGED <<result, after_tool_result>>
                    ELSE ReturnAfterHook(error_result("User rejected the operation"),
                                         <<"check_approval", "request_confirmation">>)
       \/ /\ decision' = APPROVED
          /\ ipc' = "execute"
          /\ steps' = steps \o <<"check_approval">>
          /\ UNCHANGED <<result, after_tool_result, approved>>
    /\ UNCHANGED <<mcpVars, approval_policy, has_callback, allowed_tools, ctx, inv, confirmation, fault, process,
                   contextVars, loopVars>>

(* The results tool.execute can produce: a success result, an error result *)
(* of the tool's own, or an exception with its message, which invoke turns *)
(* into the "Internal error" result.  ShellTool.execute returns its       *)
(* "blocked" error before spawning when the lowered command contains a     *)
(* blocked entry.                                                          *)

FaultMessages == {"disk full", "permission denied", "no such process"}

Fault(message) == [raises |-> TRUE, message |-> message]

Faults == {Fault(m) : m \in FaultMessages}

(* The exception a tool's execute meets: an OSError while writing for the  *)
(* tools that write, a PermissionError for the others.                     *)
ExecuteFault(name) ==
    IF ToolKind(name) = WRITE THEN Fault("disk full")
    ELSE Fault("permission denied")

(* shell.py 32-37: the timeout of the call, 120 when it is not given.      *)
TimeoutOf(params) == IF "timeout" \in DOMAIN params THEN params.timeout ELSE 120

(* shell.py 117: f"Command timed out after {params.timeout}s"              *)
TimedOut(timeout) ==
    CASE timeout = 120 -> "Command timed out after 120s"
      [] timeout = 30 -> "Command timed out after 30s"

(* shell.py 97-117: what becomes of the spawned command.  communicate()    *)
(* ends within the timeout, with exit code 0 or not; or the timeout        *)
(* elapses and the handler kills the process group of process.pid, which   *)
(* os.getpgid can only name while the shell is still there: when the shell *)
(* has exited and a child that holds its pipes has not, getpgid raises     *)
(* ProcessLookupError.                                                     *)
ShellRuns(params) ==
    {success_result(o) : o \in ToolOutputs}
    \cup {error_result("tool error"),
          error_result(TimedOut(TimeoutOf(params))),
          Fault("no such process")}

execute(name, params) ==
    IF name = "shell" /\ params.command \in BlockedLowered
        THEN {error_result("Command blocked for safety")}
        ELSE IF name = "shell"
            THEN ShellRuns(params) \cup {ExecuteFault(name)}
            ELSE {success_result(o) : o \in ToolOutputs}
                 \cup {error_result("tool error"), ExecuteFault(name)}

TimeoutTexts == {TimedOut(120), TimedOut(30)}

(* shell.py 97-117: the calls execute makes on the subprocess for the      *)
(* outcome r: none for the other tools, for a blocked command and for a    *)
(* fault before the spawn.                                                 *)
SubprocessCalls(name, r) ==
    IF name # "shell" \/ r = error_result("Command blocked for safety")
            \/ r = ExecuteFault(name)
        THEN <<>>
    ELSE IF r = Fault("no such process")
        THEN <<"create_subprocess_exec", "communicate", "getpgid">>
    ELSE IF r \in {error_result(t) : t \in TimeoutTexts}
        THEN <<"create_subprocess_exec", "communicate", "getpgid", "killpg",
               "wait">>
    ELSE <<"create_subprocess_exec", "communicate">>

(* An error text that leaves the exception's message out. *)
InternalErrorWithoutMessage(message) == "Internal error"

(* registry.py 136-137: f"Internal error: {str(e)}" *)
InternalError(message) ==
    CASE message = "disk full" -> "Internal error: disk full"
      [] message = "permission denied" -> "Internal error: permission denied"
      [] message = "no such process" -> "Internal error: no such process"

\* try: result = await tool.execute(invocation) except Exception as e: ...
InvExecute ==
    /\ ipc = "execute"
    /\ \E r \in execute(inv.name, inv.params) :
        /\ IF r \in Faults
            THEN /\ fault' = <<r.message>>
                 /\ result' = error_result(InternalError(r.message))
            ELSE /\ fault' = <<>>
                 /\ result' = r
        /\ process' = SubprocessCalls(inv.name, r)
    /\ steps' = steps \o <<"execute">>
    /\ ipc' = "after"
    /\ UNCHANGED <<mcpVars, approvalVars, inv, confirmation, approved, after_tool_result,
                   contextVars, loopVars>>

\* await hook_system.trigger_after_tool(name, params, result); return result
InvAfterTool ==
    /\ ipc = "after"
    /\ ReturnAfterHook(result, <<>>)
    /\ UNCHANGED <<mcpVars, approvalVars, inv, confirmation, approved, fault, process, contextVars, loopVars>>

InvokeStep ==
    \/ InvResolve
    \/ InvValidate
    \/ InvBeforeTool
    \/ InvGetConfirmation
    \/ InvCheckApproval
    \/ InvExecute
    \/ InvAfterTool

-----------------------------------------------------------------------------
(* TokenUsage, and the usage reports of the model.                         *)

Usage(p, c, t, k) ==
    [prompt_tokens |-> p, completion_tokens |-> c, total_tokens |-> t,
     cached_tokens |-> k]

ZeroUsage == Usage(0, 0, 0, 0)

AddUsage(a, b) ==
    Usage(a.prompt_tokens + b.prompt_tokens,
          a.completion_tokens + b.completion_tokens,
          a.total_tokens + b.total_tokens,
          a.cached_tokens + b.cached_tokens)

(* The usage the provider reports: a prompt within 80% of the context     *)
(* window (204,800) with a total beyond it.                                *)
UsageReports == {Usage(204000, 1000, 205000, 100)}

context_window == 256000

-----------------------------------------------------------------------------
(* ContextManager.                                                         *)

NoId == <<>>

(* count_tokens, the model-aware estimator, on the contents of the model. *)
count_tokens(content) ==
    IF content = <<>> THEN 0
    ELSE IF content = <<"large output">> THEN 30000
    ELSE IF content = <<"medium output">> THEN 20000
    ELSE 10

MessageItem(role, content, tool_call_id, calls) ==
    [role |-> role, content |-> content, tool_call_id |-> tool_call_id,
     tool_calls |-> calls, token_count |-> count_tokens(content),
     pruned_at |-> FALSE]

add_user_message(msgs, content) ==
    Append(msgs, MessageItem("user", content, NoId, <<>>))

(* An append that skips a message with no text and no tool calls.        *)
AddAssistantUnlessEmpty(msgs, content, calls) ==
    IF content = <<>> /\ calls = <<>> THEN msgs
    ELSE Append(msgs, MessageItem("assistant", content, NoId, calls))

add_assistant_message(msgs, content, calls) ==
    Append(msgs, MessageItem("assistant", content, NoId, calls))

(* An append that loses the tool_call_id.                                 *)
AddToolResultWithoutId(msgs, tool_call_id, content) ==
    Append(msgs, MessageItem("tool", content, NoId, <<>>))

add_tool_result(msgs, tool_call_id, content) ==
    Append(msgs, MessageItem("tool", content, tool_call_id, <<>>))

(* The empty string as a tool call id (llm_client.py 174: `id or ""`);     *)
(* NoId is None.  Both are falsy.                                          *)
EmptyId == <<"">>

(* A to_dict that leaves the tool_call_id out. *)
ToDictWithoutId(item) ==
    LET keys == {"role"}
                \cup (IF item.tool_calls # <<>> THEN {"tool_calls"} ELSE {})
                \cup (IF item.content # <<>> THEN {"content"} ELSE {})
    IN  [k \in keys |-> item[k]]

(* MessageItem.to_dict: the role, and each of tool_call_id, tool_calls and *)
(* content that is truthy.                                                 *)
to_dict(item) ==
    LET keys == {"role"}
                \cup (IF item.tool_call_id \notin {NoId, EmptyId}
                        THEN {"tool_call_id"} ELSE {})
                \cup (IF item.tool_calls # <<>> THEN {"tool_calls"} ELSE {})
                \cup (IF item.content # <<>> THEN {"content"} ELSE {})
    IN  [k \in keys |-> item[k]]

(* get_messages: the system prompt, then the history. *)
get_messages(msgs) ==
    <<[role |-> "system", content |-> <<"system prompt">>]>>
        \o [i \in 1..Len(msgs) |-> to_dict(msgs[i])]

needs_compression(latest) ==
    latest.total_tokens * 10 > context_window * 8

(* A replacement that leaves out the continue directive.                 *)
ReplaceWithoutContinue(summary) ==
    << MessageItem("user", <<"Context Restoration", summary, "Resume work">>, NoId, <<>>),
       MessageItem("assistant", <<"I've reviewed the context">>, NoId, <<>>) >>

replace_with_summary(summary) ==
    << MessageItem("user", <<"Context Restoration", summary, "Resume work">>, NoId, <<>>),
       MessageItem("assistant", <<"I've reviewed the context">>, NoId, <<>>),
       MessageItem("user", <<"Continue with the REMAINING work only">>, NoId, <<>>) >>

PRUNE_PROTECT_TOKENS == 40000
PRUNE_MINIMUM_TOKENS == 20000

Placeholder == <<"[Old tool result content cleared]">>

(* A scan that takes a message whose running total only reaches the      *)
(* protect threshold.                                                      *)
RECURSIVE PruneScanInclusive(_, _, _)
PruneScanInclusive(msgs, i, total) ==
    IF i = 0 THEN {}
    ELSE IF msgs[i].role = "tool" /\ msgs[i].tool_call_id # NoId
        THEN IF msgs[i].pruned_at THEN {}
             ELSE (IF total + msgs[i].token_count >= PRUNE_PROTECT_TOKENS
                      THEN {i} ELSE {})
                  \cup PruneScanInclusive(msgs, i - 1, total + msgs[i].token_count)
        ELSE PruneScanInclusive(msgs, i - 1, total)

(* The scan of prune_tool_outputs, newest to oldest from index i, with the *)
(* running total_tokens; yields the indices of to_prune.                   *)
RECURSIVE PruneScan(_, _, _)
PruneScan(msgs, i, total) ==
    IF i = 0 THEN {}
    ELSE IF msgs[i].role = "tool" /\ msgs[i].tool_call_id # NoId
        THEN IF msgs[i].pruned_at THEN {}
             ELSE (IF total + msgs[i].token_count > PRUNE_PROTECT_TOKENS
                      THEN {i} ELSE {})
                  \cup PruneScan(msgs, i - 1, total + msgs[i].token_count)
        ELSE PruneScan(msgs, i - 1, total)

RECURSIVE SumTokens(_, _)
SumTokens(msgs, indices) ==
    IF indices = {} THEN 0
    ELSE LET i == CHOOSE j \in indices : TRUE
         IN  msgs[i].token_count + SumTokens(msgs, indices \ {i})

UserCount(msgs) == Cardinality({i \in 1..Len(msgs) : msgs[i].role = "user"})

(* to_prune after the whole scan.                                          *)
Candidates(msgs) == PruneScan(msgs, Len(msgs), 0)

(* A history without the guard on the number of user messages.            *)
ToPruneAnyHistory(msgs) ==
    IF SumTokens(msgs, Candidates(msgs)) < PRUNE_MINIMUM_TOKENS THEN {}
    ELSE Candidates(msgs)

(* The messages the call clears: none when there are fewer than two user   *)
(* messages or when pruned_tokens is below the minimum.                    *)
ToPrune(msgs) ==
    IF UserCount(msgs) < 2 THEN {}
    ELSE IF SumTokens(msgs, Candidates(msgs)) < PRUNE_MINIMUM_TOKENS THEN {}
    ELSE Candidates(msgs)

(* A clearing that leaves token_count and pruned_at as they were.          *)
ClearedUnstamped(msg) == [msg EXCEPT !.content = Placeholder]

(* A clearing that also drops the tool_call_id.                            *)
ClearedWithoutId(msg) ==
    [msg EXCEPT !.content = Placeholder,
                !.token_count = count_tokens(Placeholder),
                !.pruned_at = TRUE,
                !.tool_call_id = NoId]

(* manager.py 202-206: the effect on one message of to_prune.              *)
Cleared(msg) ==
    [msg EXCEPT !.content = Placeholder,
                !.token_count = count_tokens(Placeholder),
                !.pruned_at = TRUE]

prune_tool_outputs(msgs) ==
    [i \in 1..Len(msgs) |-> IF i \in ToPrune(msgs) THEN Cleared(msgs[i]) ELSE msgs[i]]

(* The value prune_tool_outputs returns.                                   *)
pruned_count(msgs) == Cardinality(ToPrune(msgs))

(* What the summarizing call of compress gives: it raises, or it yields a  *)
(* MESSAGE_COMPLETE with a summary (possibly empty) and a usage (possibly  *)
(* None).                                                                  *)
SummarizerReplies ==
    {Raises} \cup {[summary |-> t, usage |-> u] :
                        t \in {"", "summary"}, u \in UsageReports \cup {None}}

(* ChatCompactor.compress: None when the history is too short, when the    *)
(* summarizer raises, gives no summary or no usage; otherwise the summary  *)
(* and the usage of the summarizing call.                                  *)
compress(msgs, reply) ==
    IF Len(get_messages(msgs)) < 3 THEN None
    ELSE IF reply = Raises THEN None
    ELSE IF reply.summary = "" \/ reply.usage = None THEN None
    ELSE reply

(* A loop that clears the history when compress gives nothing.            *)
CompactedContextClearing(c, msgs, latest, total) ==
    IF c = None THEN <<SubSeq(msgs, 1, 0), latest, total>>
    ELSE <<replace_with_summary(c.summary), c.usage, AddUsage(total, c.usage)>>

(* agent.py 50-53: the messages, the latest usage and the cumulative usage *)
(* after compress has returned c.                                          *)
CompactedContext(c, msgs, latest, total) ==
    IF c = None THEN <<msgs, latest, total>>
    ELSE <<replace_with_summary(c.summary), c.usage, AddUsage(total, c.usage)>>

-----------------------------------------------------------------------------
(* LoopDetector.                                                           *)

LoopHistoryMax == 20
max_exact_repeats == 3
max_cycle_length == 3

Signature(type, name, args, text) ==
    [type |-> type, name |-> name, args |-> args, text |-> text]

(* deque(maxlen=20).append *)
record_action(hist, signature) ==
    IF Len(hist) < LoopHistoryMax THEN Append(hist, signature)
    ELSE Append(Tail(hist), signature)

LastN(seq, n) == SubSeq(seq, Len(seq) - n + 1, Len(seq))

Min(a, b) == IF a < b THEN a ELSE b

(* The cycle lengths of range(2, min(max_cycle_length + 1, len // 2 + 1))  *)
(* whose two most recent blocks are equal.                                 *)
CycleLengths(hist) ==
    {n \in 2..(Min(max_cycle_length + 1, (Len(hist) \div 2) + 1) - 1) :
        SubSeq(LastN(hist, 2 * n), 1, n) = SubSeq(LastN(hist, 2 * n), n + 1, 2 * n)}

(* f"Detected repeating cycle of length {cycle_len}" *)
CycleReport(n) ==
    IF n = 2 THEN "Detected repeating cycle of length 2"
    ELSE "Detected repeating cycle of length 3"

(* A detector that looks for cycles before exact repeats.                *)
CheckCyclesFirst(hist) ==
    IF Len(hist) < 2 THEN NoValue
    ELSE IF Len(hist) >= max_cycle_length * 2 /\ CycleLengths(hist) # {}
        THEN CycleReport(CHOOSE n \in CycleLengths(hist) :
                            \A m \in CycleLengths(hist) : n <= m)
    ELSE IF /\ Len(hist) >= max_exact_repeats
            /\ \A i \in 1..max_exact_repeats :
                  LastN(hist, max_exact_repeats)[i] = hist[Len(hist)]
        THEN "Same action repeated"
    ELSE NoValue

check_for_loop(hist) ==
    IF Len(hist) < 2 THEN NoValue
    ELSE IF /\ Len(hist) >= max_exact_repeats
            /\ \A i \in 1..max_exact_repeats :
                  LastN(hist, max_exact_repeats)[i] = hist[Len(hist)]
        THEN "Same action repeated"
    ELSE IF Len(hist) >= max_cycle_length * 2 /\ CycleLengths(hist) # {}
        THEN CycleReport(CHOOSE n \in CycleLengths(hist) :
                            \A m \in CycleLengths(hist) : n <= m)
    ELSE NoValue

-----------------------------------------------------------------------------
(* Agent.run and Agent._agentic_loop, with LLMClient.chat_completion.      *)

MaxTurns == 2
MaxCalls == 2
MaxDeltas == 1
MaxRetries == 3

(* The calls the model requests in a run of the loop, and the policies of  *)
(* the sessions that run it (ON_REQUEST is Config's default).              *)
LoopCalls ==
    { [name |-> "list_dir", params |-> [path |-> "."]],
      [name |-> "edit", params |-> [path |-> "a.txt", new_string |-> "x"]],
      [name |-> "nope", params |-> [path |-> "."]] }

LoopPolicies == {ON_REQUEST}

CallBatches == UNION {[1..n -> LoopCalls] : n \in 0..MaxCalls}

(* ToolCall as delivered by TOOL_CALL_COMPLETE: the call id is unique.     *)
ToolCall(n, i, call) ==
    [call_id |-> <<n, i>>, name |-> call.name, arguments |-> call.params]

Event(type, id, info) == [type |-> type, id |-> id, info |-> info]

NoRun ==
    /\ messages = <<>>
    /\ latest_usage = ZeroUsage
    /\ total_usage = ZeroUsage
    /\ history = <<>>
    /\ attempt = 0
    /\ pc = "idle"
    /\ max_turns = 0
    /\ turn_num = 0
    /\ response_text = <<>>
    /\ tool_calls = <<>>
    /\ usage = None
    /\ idx = 0
    /\ tool_call_results = <<>>
    /\ model_calls = 0
    /\ loop_detection_error = NoValue
    /\ reported_usage = ZeroUsage
    /\ turn_count = 0
    /\ session_file = None
    /\ slept = <<>>
    /\ attempt_events = <<>>
    /\ events = <<>>

Init ==
    /\ approval_policy \in LoopPolicies
    /\ has_callback = FALSE
    /\ allowed_tools = <<>>
    /\ McpIdle
    /\ ctx = None
    /\ decision = NoValue
    /\ InvokeIdle
    /\ messages = <<>>
    /\ latest_usage = ZeroUsage
    /\ total_usage = ZeroUsage
    /\ history = <<>>
    /\ attempt = 0
    /\ pc = "init"
    /\ max_turns \in 1..MaxTurns
    /\ turn_num = 0
    /\ response_text = <<>>
    /\ tool_calls = <<>>
    /\ usage = None
    /\ idx = 0
    /\ tool_call_results = <<>>
    /\ model_calls = 0
    /\ loop_detection_error = NoValue
    /\ reported_usage = ZeroUsage
    /\ turn_count = 0
    /\ session_file = None
    /\ slept = <<>>
    /\ attempt_events = <<>>
    /\ events = <<>>

\* run: before_agent hook, agent_start, add_user_message, enter the loop
RunStart ==
    /\ pc = "init"
    /\ events' = Append(events, Event("agent_start", NoId, ""))
    /\ messages' = add_user_message(messages, <<"task">>)
    /\ turn_num' = 0
    /\ pc' = "turn"
    /\ UNCHANGED <<mcpVars, approvalVars, invokeVars, latest_usage, total_usage, history,
                   attempt, max_turns, turnVars, model_calls, loop_detection_error, reported_usage, turn_count, session_file, slept, attempt_events>>

\* agent.py 40-63: a turn begins: compaction when needed, then the model call
TurnStart ==
    /\ pc = "turn"
    /\ turn_num < max_turns
    /\ IF needs_compression(latest_usage)
        THEN \E reply \in SummarizerReplies :
                LET after == CompactedContext(compress(messages, reply),
                                              messages, latest_usage, total_usage)
                IN  /\ messages' = after[1]
                    /\ latest_usage' = after[2]
                    /\ total_usage' = after[3]
        ELSE UNCHANGED contextVars
    /\ response_text' = <<>>
    /\ tool_calls' = <<>>
    /\ usage' = None
    /\ attempt' = 0
    /\ model_calls' = model_calls + 1
    /\ turn_count' = turn_count + 1
    /\ pc' = "stream"
    /\ slept' = <<>>
    /\ attempt_events' = <<>>
    /\ UNCHANGED <<mcpVars, approvalVars, invokeVars, history, max_turns, turn_num, idx,
                   tool_call_results, events, loop_detection_error, reported_usage,
                   session_file>>

\* _stream_response yields TEXT_DELTA; agent.py 64-68
StreamTextDelta ==
    /\ pc = "stream"
    /\ Len(response_text) < MaxDeltas
    /\ response_text' = Append(response_text, "x")
    /\ events' = Append(events, Event("text_delta", NoId, "x"))
    /\ attempt_events' = Append(attempt_events, "x")
    /\ UNCHANGED <<mcpVars, approvalVars, invokeVars, contextVars, history, attempt, pc, max_turns,
                   turn_num, tool_calls, usage, idx, tool_call_results, model_calls, loop_detection_error, reported_usage, turn_count, session_file, slept>>

(* llm_client.py 107, 117: wait_time = 2**attempt *)
wait_time(n) == 2 ^ n

\* llm_client.py 105-108, 115-118: a rate-limit or connection error with
\* retries left: sleep, next attempt
StreamRetry ==
    /\ pc = "stream"
    /\ attempt < MaxRetries
    /\ attempt' = attempt + 1
    /\ slept' = Append(slept, wait_time(attempt))
    /\ attempt_events' = <<>>
    /\ UNCHANGED <<mcpVars, approvalVars, invokeVars, contextVars, history, pc, max_turns,
                   turn_num, turnVars, model_calls, loop_detection_error, reported_usage, turn_count, session_file, events>>

(* A transport that has delivered tool calls when its stream fails.       *)
StreamErrorAfterToolCalls ==
    /\ pc = "stream"
    /\ \E kind \in {"Rate limit exceeded", "Connection error", "API error"},
          batch \in CallBatches :
        /\ kind # "API error" => attempt = MaxRetries
        /\ events' = Append(events, Event("agent_error", NoId, kind))
        /\ tool_calls' = [i \in 1..Len(batch) |-> ToolCall(model_calls, i, batch[i])]
    /\ attempt' = 0
    /\ pc' = "assistant"
    /\ slept' = <<>>
    /\ attempt_events' = <<>>
    /\ UNCHANGED <<mcpVars, approvalVars, invokeVars, contextVars, history, max_turns,
                   turn_num, response_text, usage, idx, tool_call_results, model_calls, loop_detection_error, reported_usage, turn_count, session_file>>

(* A client that gives up on the first rate-limit or connection error.    *)
StreamErrorBeforeLastAttempt ==
    /\ pc = "stream"
    /\ \E kind \in {"Rate limit exceeded", "Connection error", "API error"} :
        events' = Append(events, Event("agent_error", NoId, kind))
    /\ attempt' = 0
    /\ pc' = "assistant"
    /\ slept' = <<>>
    /\ attempt_events' = <<>>
    /\ UNCHANGED <<mcpVars, approvalVars, invokeVars, contextVars, history, max_turns,
                   turn_num, turnVars, model_calls, loop_detection_error, reported_usage, turn_count, session_file>>

\* llm_client.py 109-114, 119-130: a rate-limit or connection error on the
\* last attempt, or any other API error: one ERROR event ends the stream;
\* agent.py 72-75 yields agent_error
StreamError ==
    /\ pc = "stream"
    /\ \E kind \in {"Rate limit exceeded", "Connection error", "API error"} :
        /\ kind # "API error" => attempt = MaxRetries
        /\ events' = Append(events, Event("agent_error", NoId, kind))
    /\ attempt' = 0
    /\ pc' = "assistant"
    /\ slept' = <<>>
    /\ attempt_events' = <<>>
    /\ UNCHANGED <<mcpVars, approvalVars, invokeVars, contextVars, history, max_turns,
                   turn_num, turnVars, model_calls, loop_detection_error, reported_usage, turn_count, session_file>>

\* llm_client.py 203-217: the attempt's stream ends: TOOL_CALL_COMPLETE for
\* each assembled call, then MESSAGE_COMPLETE with the usage; agent.py 69-71,
\* 76-77
StreamComplete ==
    /\ pc = "stream"
    /\ \E batch \in CallBatches, u \in UsageReports \cup {None} :
        /\ tool_calls' = [i \in 1..Len(batch) |-> ToolCall(model_calls, i, batch[i])]
        /\ usage' = u
        /\ reported_usage' = IF u = None THEN reported_usage
                              ELSE AddUsage(reported_usage, u)
    /\ attempt' = 0
    /\ pc' = "assistant"
    /\ slept' = <<>>
    /\ attempt_events' = <<>>
    /\ UNCHANGED <<mcpVars, approvalVars, invokeVars, contextVars, history, max_turns,
                   turn_num, response_text, idx, tool_call_results, model_calls,
                   loop_detection_error, turn_count, session_file, events>>

(* agent.py 81-95: the tool calls as the assistant message carries them.  *)
WireToolCalls(calls) ==
    [i \in 1..Len(calls) |->
        [id |-> calls[i].call_id, type |-> "function",
         function |-> [name |-> calls[i].name,
                       arguments |-> <<"str", calls[i].arguments>>]]]

(* agent.py 105-109 and 160-164: record the usage, prune. *)
RecordUsageAndPrune(msgs) ==
    /\ IF usage # None
        THEN /\ latest_usage' = usage
             /\ total_usage' = AddUsage(total_usage, usage)
        ELSE UNCHANGED <<latest_usage, total_usage>>
    /\ messages' = prune_tool_outputs(msgs)

(* agent.py 110: `return` leaves the loop; without it the while loop would *)
(* go round again.                                                         *)
ContinueAfterNoToolCalls == "turn"

AfterNoToolCalls == "returned"

\* agent.py 79-110: the assistant message; without tool calls the loop returns
AppendAssistant ==
    /\ pc = "assistant"
    /\ LET msgs == add_assistant_message(messages, response_text,
                                          WireToolCalls(tool_calls))
       IN  /\ IF response_text # <<>>
                THEN /\ events' = Append(events, Event("text_complete", NoId, ""))
                     /\ history' = record_action(history,
                                        Signature("response", "", <<>>, response_text))
                ELSE UNCHANGED <<events, history>>
           /\ IF tool_calls = <<>>
                THEN /\ RecordUsageAndPrune(msgs)
                     /\ pc' = AfterNoToolCalls
                     /\ UNCHANGED <<idx, tool_call_results>>
                ELSE /\ messages' = msgs
                     /\ tool_call_results' = <<>>
                     /\ idx' = 1
                     /\ pc' = "tools"
                     /\ UNCHANGED <<latest_usage, total_usage>>
    /\ UNCHANGED <<mcpVars, approvalVars, invokeVars, attempt, max_turns, turn_num,
                   response_text, tool_calls, usage, model_calls, loop_detection_error, reported_usage, turn_count, session_file, slept, attempt_events>>

\* agent.py 114-133: tool_call_start, record_action, and invoke is entered
ToolStart ==
    /\ pc = "tools"
    /\ ipc = "idle"
    /\ idx <= Len(tool_calls)
    /\ LET tc == tool_calls[idx]
       IN  /\ events' = Append(events, Event("tool_call_start", tc.call_id, tc.name))
           /\ history' = record_action(history,
                            Signature("tool_call", tc.name, tc.arguments, <<>>))
           /\ EnterInvoke([name |-> tc.name, params |-> tc.arguments], TRUE)
    /\ UNCHANGED <<mcpVars, approval_policy, has_callback, allowed_tools, contextVars, attempt, pc, max_turns,
                   turn_num, turnVars, model_calls, loop_detection_error, reported_usage, turn_count, session_file, slept, attempt_events>>

\* agent.py 135-147: invoke has returned: tool_call_complete, collect the result
ToolComplete ==
    /\ pc = "tools"
    /\ ipc = "returned"
    /\ LET tc == tool_calls[idx]
       IN  /\ events' = Append(events, Event("tool_call_complete", tc.call_id, tc.name))
           /\ tool_call_results' = Append(tool_call_results,
                    [tool_call_id |-> tc.call_id, content |-> result.content,
                     is_error |-> ~result.success])
    /\ idx' = idx + 1
    /\ ipc' = "idle"
    /\ inv' = None
    /\ confirmation' = None
    /\ approved' = <<>>
    /\ fault' = <<>>
    /\ process' = <<>>
    /\ result' = None
    /\ after_tool_result' = None
    /\ steps' = <<>>
    /\ UNCHANGED <<mcpVars, approvalVars, contextVars, history, attempt, pc, max_turns,
                   turn_num, response_text, tool_calls, usage, model_calls, loop_detection_error, reported_usage, turn_count, session_file, slept, attempt_events>>

\* invoke has raised: the exception leaves _agentic_loop and run
ToolRaised ==
    /\ pc = "tools"
    /\ ipc = "raised"
    /\ pc' = "crashed"
    /\ ipc' = "idle"
    /\ inv' = None
    /\ confirmation' = None
    /\ approved' = <<>>
    /\ fault' = <<>>
    /\ process' = <<>>
    /\ result' = None
    /\ after_tool_result' = None
    /\ steps' = <<>>
    /\ UNCHANGED <<mcpVars, approvalVars, contextVars, history, attempt, max_turns,
                   turn_num, turnVars, model_calls, loop_detection_error, reported_usage, turn_count, session_file, slept, attempt_events, events>>

(* A batch whose results are appended newest first.                      *)
RECURSIVE AddToolResultsNewestFirst(_, _)
AddToolResultsNewestFirst(msgs, results) ==
    IF results = <<>> THEN msgs
    ELSE add_tool_result(AddToolResultsNewestFirst(msgs, Tail(results)),
                         Head(results).tool_call_id, Head(results).content)

(* agent.py 149-153: one add_tool_result per collected result, in order.  *)
RECURSIVE AddToolResults(_, _)
AddToolResults(msgs, results) ==
    IF results = <<>> THEN msgs
    ELSE AddToolResults(
            add_tool_result(msgs, Head(results).tool_call_id, Head(results).content),
            Tail(results))

(* A loop that stops when the detector reports something.                *)
StopOnDetection(report) == IF report # NoValue THEN "returned" ELSE "turn"

(* agent.py 155-164: whatever check_for_loop reports, the for loop goes on *)
(* to its next iteration.                                                  *)
AfterBatch(report) == "turn"

\* agent.py 149-164: the tool messages, the loop check, usage, pruning; next turn
BatchEnd ==
    /\ pc = "tools"
    /\ ipc = "idle"
    /\ idx > Len(tool_calls)
    /\ loop_detection_error' = check_for_loop(history)
    /\ LET with_results == AddToolResults(messages, tool_call_results)
           msgs == IF check_for_loop(history) # NoValue
                      THEN add_user_message(with_results,
                                <<"loop breaker: ", check_for_loop(history)>>)
                      ELSE with_results
       IN  RecordUsageAndPrune(msgs)
    /\ turn_num' = turn_num + 1
    /\ pc' = AfterBatch(check_for_loop(history))
    /\ UNCHANGED <<mcpVars, approvalVars, invokeVars, history, attempt, max_turns, turnVars,
                   model_calls, reported_usage, turn_count, session_file, slept, attempt_events, events>>

\* agent.py 165: the for loop is exhausted
MaxTurnsReached ==
    /\ pc = "turn"
    /\ turn_num >= max_turns
    /\ events' = Append(events, Event("agent_error", NoId, "Maximum turns reached"))
    /\ pc' = "exhausted"
    /\ UNCHANGED <<mcpVars, approvalVars, invokeVars, contextVars, history, attempt, max_turns,
                   turn_num, turnVars, model_calls, loop_detection_error, reported_usage, turn_count, session_file, slept, attempt_events>>

\* agent.py 34-35: after_agent hook, agent_end
RunEnd ==
    /\ pc \in {"returned", "exhausted"}
    /\ events' = Append(events, Event("agent_end", NoId, ""))
    /\ pc' = "done"
    /\ UNCHANGED <<mcpVars, approvalVars, invokeVars, contextVars, history, attempt, max_turns,
                   turn_num, turnVars, model_calls, loop_detection_error, reported_usage, turn_count, session_file, slept, attempt_events>>

Next ==
    \/ RunStart
    \/ TurnStart
    \/ StreamTextDelta
    \/ StreamRetry
    \/ StreamError
    \/ StreamComplete
    \/ AppendAssistant
    \/ ToolStart
    \/ InvokeStep
    \/ ToolComplete
    \/ ToolRaised
    \/ BatchEnd
    \/ MaxTurnsReached
    \/ RunEnd

Spec == Init /\ [][Next]_vars

-----------------------------------------------------------------------------
(* The loop with a model that keeps asking for the same few calls: every   *)
(* turn's stream delivers max_exact_repeats calls drawn from two.          *)

RepeatCalls ==
    { [name |-> "list_dir", params |-> [path |-> "."]],
      [name |-> "nope", params |-> [path |-> "."]] }

RepeatBatches == [1..max_exact_repeats -> RepeatCalls]

\* llm_client.py 203-217 and agent.py 69-77, for such a model
StreamRepeatedCalls ==
    /\ pc = "stream"
    /\ \E batch \in RepeatBatches, u \in UsageReports \cup {None} :
        /\ tool_calls' = [i \in 1..Len(batch) |-> ToolCall(model_calls, i, batch[i])]
        /\ usage' = u
        /\ reported_usage' = IF u = None THEN reported_usage
                              ELSE AddUsage(reported_usage, u)
    /\ attempt' = 0
    /\ pc' = "assistant"
    /\ slept' = <<>>
    /\ attempt_events' = <<>>
    /\ UNCHANGED <<mcpVars, approvalVars, invokeVars, contextVars, history, max_turns,
                   turn_num, response_text, idx, tool_call_results, model_calls,
                   loop_detection_error, turn_count, session_file, events>>

NextRepeat ==
    \/ RunStart
    \/ TurnStart
    \/ StreamTextDelta
    \/ StreamRepeatedCalls
    \/ AppendAssistant
    \/ ToolStart
    \/ InvResolve
    \/ InvValidate
    \/ InvBeforeTool
    \/ InvGetConfirmation
    \/ InvExecute
    \/ InvAfterTool
    \/ ToolComplete
    \/ BatchEnd
    \/ MaxTurnsReached
    \/ RunEnd

SpecRepeat == Init /\ [][NextRepeat]_vars

-----------------------------------------------------------------------------
(* One call of chat_completion on its own, consumed by the loop's first    *)
(* turn: the states are those RunStart and TurnStart leave.                *)

InitClient ==
    /\ approval_policy = ON_REQUEST
    /\ has_callback = FALSE
    /\ allowed_tools = <<>>
    /\ McpIdle
    /\ ctx = None
    /\ decision = NoValue
    /\ InvokeIdle
    /\ messages = add_user_message(<<>>, <<"task">>)
    /\ latest_usage = ZeroUsage
    /\ total_usage = ZeroUsage
    /\ history = <<>>
    /\ attempt = 0
    /\ slept = <<>>
    /\ attempt_events = <<>>
    /\ pc = "stream"
    /\ max_turns \in 1..MaxTurns
    /\ turn_num = 0
    /\ response_text = <<>>
    /\ tool_calls = <<>>
    /\ usage = None
    /\ idx = 0
    /\ tool_call_results = <<>>
    /\ model_calls = 1
    /\ loop_detection_error = NoValue
    /\ reported_usage = ZeroUsage
    /\ turn_count = 1
    /\ session_file = None
    /\ events = <<Event("agent_start", NoId, "")>>

NextClient ==
    \/ StreamTextDelta
    \/ StreamRetry
    \/ StreamError
    \/ StreamComplete

SpecClient == InitClient /\ [][NextClient]_vars

-----------------------------------------------------------------------------
(* Saving and resuming a session: agent/persistence.py and the /save and   *)
(* /resume commands of main.py.  json.dump and json.load keep strings,     *)
(* integers, lists and string-keyed dicts as they are, so the file is      *)
(* written here as the dict that json.load gives back.                     *)

(* SessionSnapshot.to_dict, of the snapshot /save builds (main.py 190-197). *)
snapshot_to_dict(count, msgs, total) ==
    [turn_count |-> count,
     messages |-> get_messages(msgs),
     total_usage |-> [prompt_tokens |-> total.prompt_tokens,
                      completion_tokens |-> total.completion_tokens,
                      total_tokens |-> total.total_tokens,
                      cached_tokens |-> total.cached_tokens]]

(* dict.get(key, default) *)
Get(d, key, default) == IF key \in DOMAIN d THEN d[key] ELSE default

(* main.py 229-243: the saved messages are appended to the new session's   *)
(* Context Store one by one, the system message skipped.                   *)
RECURSIVE restore_messages(_, _)
restore_messages(saved, msgs) ==
    IF saved = <<>> THEN msgs
    ELSE LET msg == Head(saved)
             next ==
                CASE msg.role = "system" -> msgs
                  [] msg.role = "user" ->
                        add_user_message(msgs, Get(msg, "content", <<>>))
                  [] msg.role = "assistant" ->
                        add_assistant_message(msgs, Get(msg, "content", <<>>),
                                              Get(msg, "tool_calls", <<>>))
                  [] msg.role = "tool" ->
                        add_tool_result(msgs, Get(msg, "tool_call_id", EmptyId),
                                        Get(msg, "content", <<>>))
         IN  restore_messages(Tail(saved), next)

(* SessionSnapshot.from_dict: a TokenUsage from the saved counters *)
from_dict(data) ==
    [turn_count |-> data.turn_count,
     messages |-> data.messages,
     total_usage |-> Usage(data.total_usage.prompt_tokens,
                           data.total_usage.completion_tokens,
                           data.total_usage.total_tokens,
                           data.total_usage.cached_tokens)]

MaxSaved == 4

MaxSessionTurns == 2

SessionTexts == {<<>>, <<"ok">>}

InitSession ==
    /\ approval_policy = ON_REQUEST
    /\ has_callback = FALSE
    /\ allowed_tools = <<>>
    /\ McpIdle
    /\ ctx = None
    /\ decision = NoValue
    /\ InvokeIdle
    /\ messages = <<>>
    /\ latest_usage = ZeroUsage
    /\ total_usage = ZeroUsage
    /\ history = <<>>
    /\ attempt = 0
    /\ pc = "session"
    /\ max_turns = 0
    /\ turn_num = 0
    /\ response_text = <<>>
    /\ tool_calls = <<>>
    /\ usage = None
    /\ idx = 0
    /\ tool_call_results = <<>>
    /\ model_calls = 0
    /\ loop_detection_error = NoValue
    /\ reported_usage = ZeroUsage
    /\ turn_count = 0
    /\ session_file = None
    /\ slept = <<>>
    /\ attempt_events = <<>>
    /\ events = <<>>

\* a user message is added to the session
SessionAddUser ==
    /\ pc \in {"session", "resumed"}
    /\ Len(messages) < MaxSaved
    /\ messages' = add_user_message(messages, <<"task">>)
    /\ pc' = "session"
    /\ UNCHANGED <<mcpVars, approvalVars, invokeVars, latest_usage, total_usage, history, attempt,
                   max_turns, turn_num, turnVars, model_calls, loop_detection_error,
                   reported_usage, turn_count, session_file, slept, attempt_events, events>>

\* a turn of the session: increment_turn, the assistant message, the usage
SessionTurn ==
    /\ pc \in {"session", "resumed"}
    /\ Len(messages) < MaxSaved
    /\ turn_count < MaxSessionTurns
    /\ turn_count' = turn_count + 1
    /\ \E text \in SessionTexts, calls \in {<<>>, <<[name |-> "list_dir", params |-> [path |-> "."]]>>} :
        messages' = add_assistant_message(messages, text,
                        WireToolCalls([i \in 1..Len(calls) |->
                                        ToolCall(turn_count + 1, i, calls[i])]))
    /\ \E u \in UsageReports :
        /\ latest_usage' = u
        /\ total_usage' = AddUsage(total_usage, u)
    /\ pc' = "session"
    /\ UNCHANGED <<mcpVars, approvalVars, invokeVars, history, attempt, max_turns, turn_num,
                   turnVars, model_calls, loop_detection_error, reported_usage,
                   session_file, slept, attempt_events, events>>

\* a tool result is added, under the call's id or under the empty id
SessionAddToolResult ==
    /\ pc \in {"session", "resumed"}
    /\ Len(messages) < MaxSaved
    /\ \E id \in {<<1, 1>>, EmptyId}, text \in SessionTexts :
        messages' = add_tool_result(messages, id, text)
    /\ pc' = "session"
    /\ UNCHANGED <<mcpVars, approvalVars, invokeVars, latest_usage, total_usage, history, attempt,
                   max_turns, turn_num, turnVars, model_calls, loop_detection_error,
                   reported_usage, turn_count, session_file, slept, attempt_events, events>>

\* main.py 188-201: /save
Save ==
    /\ pc \in {"session", "resumed"}
    /\ session_file' = snapshot_to_dict(turn_count, messages, total_usage)
    /\ pc' = "saved"
    /\ UNCHANGED <<mcpVars, approvalVars, invokeVars, contextVars, history, attempt,
                   max_turns, turn_num, turnVars, model_calls, loop_detection_error,
                   reported_usage, turn_count, slept, attempt_events, events>>

\* main.py 210-251: /resume of the saved session, into a new Session
Resume ==
    /\ pc = "saved"
    /\ session_file # None
    /\ LET snapshot == from_dict(session_file)
       IN  /\ turn_count' = snapshot.turn_count
           /\ total_usage' = snapshot.total_usage
           /\ messages' = restore_messages(snapshot.messages, <<>>)
    /\ latest_usage' = ZeroUsage
    /\ pc' = "resumed"
    /\ UNCHANGED <<mcpVars, approvalVars, invokeVars, history, attempt, max_turns, turn_num,
                   turnVars, model_calls, loop_detection_error, reported_usage,
                   session_file, slept, attempt_events, events>>

NextSession ==
    \/ SessionAddUser
    \/ SessionTurn
    \/ SessionAddToolResult
    \/ Save
    \/ Resume

SpecSession == InitSession /\ [][NextSession]_vars

-----------------------------------------------------------------------------
(* The pipeline on its own: one call of invoke on a session's registry.    *)

InitInvoke ==
    /\ approval_policy \in ApprovalPolicy
    /\ has_callback \in BOOLEAN
    /\ allowed_tools \in AllowedToolLists
    /\ McpIdle
    /\ ctx = None
    /\ decision = NoValue
    /\ ipc = "resolve"
    /\ \E call \in InvokeCalls, manager \in BOOLEAN :
        inv = [name |-> call.name, params |-> call.params, approval_manager |-> manager]
    /\ confirmation = None
    /\ approved = <<>>
    /\ fault = <<>>
    /\ process = <<>>
    /\ result = None
    /\ after_tool_result = None
    /\ steps = <<>>
    /\ NoRun

NextInvoke == InvokeStep

SpecInvoke == InitInvoke /\ [][NextInvoke]_vars

-----------------------------------------------------------------------------
(* The approval engine on its own: a manager is constructed with a policy  *)
(* and a context is submitted to check_approval.                           *)

InitApproval ==
    /\ approval_policy \in ApprovalPolicy
    /\ has_callback \in BOOLEAN
    /\ allowed_tools = <<>>
    /\ McpIdle
    /\ ctx \in ApprovalContexts
    /\ decision = NoValue
    /\ InvokeIdle
    /\ NoRun

CheckApproval ==
    /\ ipc = "idle"
    /\ decision = NoValue
    /\ decision' = check_approval(approval_policy, ctx)
    /\ UNCHANGED <<mcpVars, approval_policy, has_callback, allowed_tools, ctx, invokeVars, contextVars, loopVars>>

NextApproval == CheckApproval

SpecApproval == InitApproval /\ [][NextApproval]_vars

(* The Context Store on its own: messages are appended and               *)
(* prune_tool_outputs is called, in any order.                             *)
MaxHistory == 5

StoreContents == {<<"ok">>, <<"medium output">>, <<"large output">>}

InitContext ==
    /\ approval_policy = ON_REQUEST
    /\ has_callback = FALSE
    /\ allowed_tools = <<>>
    /\ McpIdle
    /\ ctx = None
    /\ decision = NoValue
    /\ InvokeIdle
    /\ messages = <<>>
    /\ latest_usage = ZeroUsage
    /\ total_usage = ZeroUsage
    /\ history = <<>>
    /\ attempt = 0
    /\ pc = "store"
    /\ max_turns = 0
    /\ turn_num = 0
    /\ response_text = <<>>
    /\ tool_calls = <<>>
    /\ usage = None
    /\ idx = 0
    /\ tool_call_results = <<>>
    /\ model_calls = 0
    /\ loop_detection_error = NoValue
    /\ reported_usage = ZeroUsage
    /\ turn_count = 0
    /\ session_file = None
    /\ slept = <<>>
    /\ attempt_events = <<>>
    /\ events = <<>>

StoreAddUser ==
    /\ pc \in {"store", "pruned"}
    /\ Len(messages) < MaxHistory
    /\ messages' = add_user_message(messages, <<"ok">>)
    /\ pc' = "store"
    /\ UNCHANGED <<mcpVars, approvalVars, invokeVars, latest_usage, total_usage, history,
                   attempt, max_turns, turn_num, turnVars, model_calls, loop_detection_error, reported_usage, turn_count, session_file, slept, attempt_events, events>>

StoreAddAssistant ==
    /\ pc \in {"store", "pruned"}
    /\ Len(messages) < MaxHistory
    /\ messages' = add_assistant_message(messages, <<"ok">>, <<>>)
    /\ pc' = "store"
    /\ UNCHANGED <<mcpVars, approvalVars, invokeVars, latest_usage, total_usage, history,
                   attempt, max_turns, turn_num, turnVars, model_calls, loop_detection_error, reported_usage, turn_count, session_file, slept, attempt_events, events>>

StoreAddToolResult ==
    /\ pc \in {"store", "pruned"}
    /\ Len(messages) < MaxHistory
    /\ \E content \in StoreContents :
            messages' = add_tool_result(messages, <<1, 1>>, content)
    /\ pc' = "store"
    /\ UNCHANGED <<mcpVars, approvalVars, invokeVars, latest_usage, total_usage, history,
                   attempt, max_turns, turn_num, turnVars, model_calls, loop_detection_error, reported_usage, turn_count, session_file, slept, attempt_events, events>>

(* A tool result whose tool_call_id is empty: the scan passes over it.     *)
StoreAddToolResultNoId ==
    /\ pc \in {"store", "pruned"}
    /\ Len(messages) < MaxHistory
    /\ messages' = add_tool_result(messages, NoId, <<"large output">>)
    /\ pc' = "store"
    /\ UNCHANGED <<mcpVars, approvalVars, invokeVars, latest_usage, total_usage, history,
                   attempt, max_turns, turn_num, turnVars, model_calls, loop_detection_error, reported_usage, turn_count, session_file, slept, attempt_events, events>>

StorePrune ==
    /\ pc \in {"store", "pruned"}
    /\ messages' = prune_tool_outputs(messages)
    /\ pc' = "pruned"
    /\ UNCHANGED <<mcpVars, approvalVars, invokeVars, latest_usage, total_usage, history,
                   attempt, max_turns, turn_num, turnVars, model_calls, loop_detection_error, reported_usage, turn_count, session_file, slept, attempt_events, events>>

NextContext ==
    \/ StoreAddUser
    \/ StoreAddAssistant
    \/ StoreAddToolResult
    \/ StoreAddToolResultNoId
    \/ StorePrune

SpecContext == InitContext /\ [][NextContext]_vars

(* The loop detector on its own: signatures are recorded and             *)
(* check_for_loop is called, in any order.                                 *)
MaxSignatures == 7

DetectorSignatures ==
    { Signature("tool_call", "list_dir", [path |-> "."], <<>>),
      Signature("tool_call", "shell", [command |-> "ls -la"], <<>>),
      Signature("response", "", <<>>, <<"x">>) }

InitDetector ==
    /\ approval_policy = ON_REQUEST
    /\ has_callback = FALSE
    /\ allowed_tools = <<>>
    /\ McpIdle
    /\ ctx = None
    /\ decision = NoValue
    /\ InvokeIdle
    /\ messages = <<>>
    /\ latest_usage = ZeroUsage
    /\ total_usage = ZeroUsage
    /\ history = <<>>
    /\ attempt = 0
    /\ pc = "detector"
    /\ max_turns = 0
    /\ turn_num = 0
    /\ response_text = <<>>
    /\ tool_calls = <<>>
    /\ usage = None
    /\ idx = 0
    /\ tool_call_results = <<>>
    /\ model_calls = 0
    /\ loop_detection_error = NoValue
    /\ reported_usage = ZeroUsage
    /\ turn_count = 0
    /\ session_file = None
    /\ slept = <<>>
    /\ attempt_events = <<>>
    /\ events = <<>>

DetectorRecord ==
    /\ pc \in {"detector", "recorded", "checked"}
    /\ Len(history) < MaxSignatures
    /\ \E signature \in DetectorSignatures :
            history' = record_action(history, signature)
    /\ pc' = "recorded"
    /\ UNCHANGED <<mcpVars, approvalVars, invokeVars, contextVars, attempt, max_turns,
                   turn_num, turnVars, model_calls, loop_detection_error,
                   reported_usage, turn_count, session_file, slept, attempt_events, events>>

DetectorCheck ==
    /\ pc \in {"detector", "recorded", "checked"}
    /\ loop_detection_error' = check_for_loop(history)
    /\ pc' = "checked"
    /\ UNCHANGED <<mcpVars, approvalVars, invokeVars, contextVars, attempt, max_turns,
                   turn_num, turnVars, model_calls, history, reported_usage, turn_count, session_file, slept, attempt_events, events>>

NextDetector ==
    \/ DetectorRecord
    \/ DetectorCheck

SpecDetector == InitDetector /\ [][NextDetector]_vars

-----------------------------------------------------------------------------
(* Claims about the approval engine (checked under SpecApproval).          *)

Decided == decision # NoValue

HasCommand == Truthy(ctx.command)

HasOutsidePath ==
    \E i \in 1..Len(ctx.affected_paths) : ~is_relative_to_cwd(ctx.affected_paths[i])

\* C2: a mutating action whose command matches the dangerous-pattern list is
\* REJECTED by check_approval under every policy, YOLO and AUTO included.
C2_DangerousAlwaysRejected ==
    (Decided /\ ctx.is_mutating /\ HasCommand /\ is_dangerous_command(ctx.command))
        => decision = REJECTED

\* C3: under ON_REQUEST and AUTO_EDIT a mutating action whose command is
\* neither dangerous nor on the safe allow-list gets NEEDS_CONFIRMATION.
C3_UnlistedNeedsConfirmation ==
    (/\ Decided
     /\ approval_policy \in {ON_REQUEST, AUTO_EDIT}
     /\ ctx.is_mutating
     /\ HasCommand
     /\ ~is_dangerous_command(ctx.command)
     /\ ~is_safe_command(ctx.command))
        => decision = NEEDS_CONFIRMATION

\* C4: check_approval returns APPROVED for every non-mutating context, under
\* every policy and whatever command, paths and is_dangerous flag it carries.
C4_NonMutatingApproved ==
    (Decided /\ ~ctx.is_mutating) => decision = APPROVED

C4_Witness ==
    /\ Decided
    /\ ~ctx.is_mutating
    /\ approval_policy = NEVER
    /\ ctx.command = "rm -rf /"
    /\ ctx.is_dangerous
    /\ HasOutsidePath
    /\ decision = APPROVED

\* C5: under NEVER a mutating action is APPROVED only when it carries a
\* command on the safe allow-list; every other mutating action is REJECTED.
C5_NeverApprovesOnlySafeCommands ==
    (Decided /\ approval_policy = NEVER /\ ctx.is_mutating)
        => /\ decision = APPROVED => (HasCommand /\ is_safe_command(ctx.command))
           /\ ~(HasCommand /\ is_safe_command(ctx.command)) => decision = REJECTED

\* C6: a mutating action with at least one affected path outside the working
\* directory is never APPROVED, whatever the policy and the command verdict.
C6_OutsidePathNeverApproved ==
    (Decided /\ ctx.is_mutating /\ HasOutsidePath) => decision # APPROVED

-----------------------------------------------------------------------------
(* Claims about the invocation pipeline (checked under SpecInvoke).        *)

RECURSIVE CountOf(_, _)
CountOf(seq, x) ==
    IF seq = <<>> THEN 0
    ELSE (IF Head(seq) = x THEN 1 ELSE 0) + CountOf(Tail(seq), x)

InvokeOver == ipc \in {"returned", "raised"}

\* C1: whatever the outcome of one call of invoke, before_tool has fired
\* exactly once and after_tool has fired exactly once when the call is over.
C1_OneBeforeOneAfter ==
    InvokeOver =>
        /\ CountOf(steps, "before_tool") = 1
        /\ CountOf(steps, "after_tool") = 1

-----------------------------------------------------------------------------
(* Claims about the agentic loop (checked under Spec).                     *)

EventIndices(type) == {i \in 1..Len(events) : events[i].type = type}

MaxTurnsEvents ==
    {i \in EventIndices("agent_error") : events[i].info = "Maximum turns reached"}

TransportErrorEvents == EventIndices("agent_error") \ MaxTurnsEvents

(* The call ids of the tool_call_start events of model call n, in order.   *)
RECURSIVE StartedFrom(_, _)
StartedFrom(n, i) ==
    IF i > Len(events) THEN <<>>
    ELSE IF events[i].type = "tool_call_start" /\ events[i].id[1] = n
        THEN <<events[i].id>> \o StartedFrom(n, i + 1)
        ELSE StartedFrom(n, i + 1)

StartedIds(n) == StartedFrom(n, 1)

CallIds(calls) == [i \in 1..Len(calls) |-> calls[i].call_id]

RunOver == pc \in {"done", "crashed"}

EveryTurnRequestedTools ==
    \A n \in 1..model_calls : StartedIds(n) # <<>>

\* C7: with turn ceiling N and a model that requests a tool call on every
\* turn, the run ends after exactly N model calls with exactly one
\* "maximum turns reached" agent-error event.
C7_CeilingEndsRunAfterNCalls ==
    (RunOver /\ model_calls > 0 /\ EveryTurnRequestedTools)
        => /\ model_calls = max_turns
           /\ Cardinality(MaxTurnsEvents) = 1

(* The same, for the runs in which no call of invoke raises. *)
C7_WithoutFault ==
    (pc = "done" /\ model_calls > 0 /\ EveryTurnRequestedTools)
        => /\ model_calls = max_turns
           /\ Cardinality(MaxTurnsEvents) = 1
           /\ events[Len(events) - 1].info = "Maximum turns reached"

\* C8: a model turn that completes with no tool calls ends the loop: usage is
\* recorded, pruning runs, and from then on no tool is invoked, no model call
\* is made and no max-turns event is emitted.
C8_NoToolCallsEndsLoop ==
    [][ /\ (pc = "assistant" /\ tool_calls = <<>>)
            => /\ pc' = "returned"
               /\ messages' = prune_tool_outputs(
                        add_assistant_message(messages, response_text, <<>>))
               /\ usage # None
                    => /\ latest_usage' = usage
                       /\ total_usage' = AddUsage(total_usage, usage)
        /\ pc = "returned"
            => /\ pc' = "done"
               /\ model_calls' = model_calls
               /\ ipc' = "idle"
               /\ EventIndices("tool_call_start")' = EventIndices("tool_call_start")
               /\ MaxTurnsEvents' = {}
               /\ events'[Len(events')].type = "agent_end" ]_vars

C8_Witness ==
    /\ pc = "returned"
    /\ model_calls < max_turns
    /\ usage # None
    /\ total_usage # ZeroUsage
    /\ total_usage = usage

\* C9: once the transport has emitted an error event, the loop has emitted an
\* agent-error event and ends: no tool call is invoked and no model call is
\* made after it.
C9_TransportErrorEndsLoop ==
    [][ TransportErrorEvents # {}
            => /\ pc \in {"assistant", "returned", "done"}
               /\ pc' \in {"returned", "done"}
               /\ model_calls' = model_calls
               /\ ipc' = "idle"
               /\ EventIndices("tool_call_start")' = EventIndices("tool_call_start")
               /\ MaxTurnsEvents' = {} ]_vars

C9_Witness ==
    /\ pc = "done"
    /\ TransportErrorEvents # {}
    /\ model_calls < max_turns
    /\ response_text # <<>>

(* The ids of the tool messages at the end of the history, skipping the    *)
(* loop-breaker prompt when it was appended.                               *)
RECURSIVE TrailingToolIds(_, _)
TrailingToolIds(msgs, i) ==
    IF i = 0 \/ msgs[i].role # "tool" THEN <<>>
    ELSE TrailingToolIds(msgs, i - 1) \o <<msgs[i].tool_call_id>>

LastToolIds ==
    IF messages # <<>> /\ messages[Len(messages)].role = "user"
        THEN TrailingToolIds(messages, Len(messages) - 1)
        ELSE TrailingToolIds(messages, Len(messages))

\* C10: the tool calls of a turn are passed to invoke one at a time, in the
\* order delivered, each exactly once, and when the turn is over the history
\* ends with one tool message per call, in that order.
C10_BatchInvokedAndAppendedInOrder ==
    /\ (pc = "tools" /\ idx >= 1)
        => /\ StartedIds(model_calls) =
                SubSeq(CallIds(tool_calls), 1, Len(StartedIds(model_calls)))
           /\ Len(StartedIds(model_calls)) = (IF ipc = "idle" THEN idx - 1 ELSE idx)
           /\ [i \in 1..Len(tool_call_results) |-> tool_call_results[i].tool_call_id]
                = SubSeq(CallIds(tool_calls), 1, Len(tool_call_results))
    /\ (pc \in {"turn", "crashed"} /\ tool_calls # <<>>)
        => /\ StartedIds(model_calls) = CallIds(tool_calls)
           /\ LastToolIds = CallIds(tool_calls)

(* The same, for the turns in which no call of invoke raises. *)
C10_WithoutFault ==
    /\ (pc = "tools" /\ idx >= 1)
        => /\ StartedIds(model_calls) =
                SubSeq(CallIds(tool_calls), 1, Len(StartedIds(model_calls)))
           /\ Len(StartedIds(model_calls)) = (IF ipc = "idle" THEN idx - 1 ELSE idx)
    /\ (pc = "turn" /\ tool_calls # <<>>)
        => /\ StartedIds(model_calls) = CallIds(tool_calls)
           /\ LastToolIds = CallIds(tool_calls)

-----------------------------------------------------------------------------
(* Claims about the Context Store in the loop (checked under Spec).        *)

ToolIndices(msgs) == {i \in 1..Len(msgs) : msgs[i].role = "tool"}

BetweenTurns == pc \in {"turn", "returned", "exhausted", "done"}

(* The tool_calls entries of the assistant messages before position i     *)
(* whose id is the tool_call_id of the message at i.                       *)
MatchingEntries(msgs, i) ==
    UNION {{<<j, k>> : k \in {n \in 1..Len(msgs[j].tool_calls) :
                                msgs[j].tool_calls[n].id = msgs[i].tool_call_id}} :
           j \in {m \in 1..(i - 1) : msgs[m].role = "assistant"}}

AssistantCount(msgs) == Cardinality({i \in 1..Len(msgs) : msgs[i].role = "assistant"})

\* C12: every model call of the loop appends exactly one assistant message,
\* also when the response text is empty and no tool call was requested: a
\* model call opens a turn, the turn's only append of an assistant message
\* follows the end of its stream, and no other step of the loop adds one.
C12_OneAssistantMessagePerModelCall ==
    [][ /\ model_calls' # model_calls
            => /\ model_calls' = model_calls + 1
               /\ pc = "turn" /\ pc' = "stream"
        /\ pc = "stream"
            => /\ pc' \in {"stream", "assistant"}
               /\ messages' = messages
        /\ pc = "assistant"
            => /\ pc' \notin {"stream", "assistant"}
               /\ Len(messages') = Len(messages) + 1
               /\ \A i \in 1..Len(messages) : messages'[i].role = messages[i].role
               /\ messages'[Len(messages')].role = "assistant"
               /\ messages'[Len(messages')].content = response_text
               /\ Len(messages'[Len(messages')].tool_calls) = Len(tool_calls)
        /\ pc \notin {"turn", "assistant"}
            => AssistantCount(messages') = AssistantCount(messages)
        /\ pc = "turn"
            => \/ messages' = messages
               \/ total_usage' # total_usage /\ Len(messages') = 3 ]_vars

C12_Witness ==
    /\ pc = "returned"
    /\ model_calls = 2
    /\ AssistantCount(messages) = 2
    /\ messages[Len(messages)].role = "assistant"
    /\ messages[Len(messages)].content = <<>>
    /\ messages[Len(messages)].tool_calls = <<>>

(* The step is the start of a turn in which compaction succeeded: only a   *)
(* successful compaction adds to the cumulative usage there.               *)
CompactionSucceeded ==
    pc = "turn" /\ pc' = "stream" /\ total_usage' # total_usage

\* C13: after a successful compaction the history is exactly three messages:
\* a user message embedding the summary, an assistant acknowledgment and a
\* user continue directive.
C13_CompactionLeavesThreeMessages ==
    [][ CompactionSucceeded
          => /\ Len(messages') = 3
             /\ messages'[1].role = "user"
             /\ \E k \in 1..Len(messages'[1].content) :
                    messages'[1].content[k] = "summary"
             /\ messages'[2].role = "assistant"
             /\ messages'[2].content = <<"I've reviewed the context">>
             /\ messages'[3].role = "user"
             /\ messages'[3].content = <<"Continue with the REMAINING work only">>
             /\ \A i \in 1..3 : /\ messages'[i].tool_call_id = NoId
                                /\ messages'[i].tool_calls = <<>>
                                /\ ~messages'[i].pruned_at ]_vars

C13_Witness ==
    /\ pc = "stream"
    /\ model_calls = 2
    /\ Len(messages) = 3
    /\ messages[1].content[1] = "Context Restoration"
    /\ total_usage.total_tokens = 410000

FailedReplies ==
    {r \in SummarizerReplies : r = Raises \/ r.summary = "" \/ r.usage = None}

\* C14: when compaction fails (empty summary, no usage, or the summarizer
\* raises) the messages, the latest usage and the cumulative usage are left
\* unchanged and the turn proceeds to its model call with the full history.
C14_FailedCompactionChangesNothing ==
    [][ (pc = "turn" /\ pc' = "stream" /\ needs_compression(latest_usage))
          => /\ \A r \in FailedReplies :
                    CompactedContext(compress(messages, r),
                                     messages, latest_usage, total_usage)
                        = <<messages, latest_usage, total_usage>>
             /\ \/ CompactionSucceeded
                \/ UNCHANGED <<messages, latest_usage, total_usage>>
             /\ model_calls' = model_calls + 1 ]_vars

C14_Witness ==
    /\ pc = "stream"
    /\ model_calls = 2
    /\ needs_compression(latest_usage)
    /\ total_usage = latest_usage
    /\ Len(messages) >= 3
    /\ messages[1].content = <<"task">>

\* C20: needs_compression is true exactly when the prompt-token count of the
\* latest usage is strictly greater than 80% of the context window, and a
\* turn compacts before its model call only in that case.
C20_CompressionOnPromptTokens ==
    [][ /\ needs_compression(latest_usage)
            <=> latest_usage.prompt_tokens * 10 > context_window * 8
        /\ CompactionSucceeded
            => latest_usage.prompt_tokens * 10 > context_window * 8 ]_vars

-----------------------------------------------------------------------------
(* Claims about pruning (checked under SpecContext).                       *)

(* The token total of the tool message at i and of every newer tool       *)
(* message.                                                                *)
TokensFrom(msgs, i) == SumTokens(msgs, {j \in ToolIndices(msgs) : j >= i})

(* The step is a call of prune_tool_outputs.                               *)
PruneCall == pc' = "pruned"

ChangedBy(before, after) == {i \in 1..Len(before) : after[i] # before[i]}

\* C15: a second call of prune_tool_outputs directly after a first one, with
\* no message added in between, returns 0 and changes no message.
C15_PruneIdempotent ==
    pc = "pruned"
        => /\ prune_tool_outputs(messages) = messages
           /\ pruned_count(messages) = 0

C15_Witness ==
    /\ pc = "pruned"
    /\ \E i \in 1..Len(messages) : messages[i].pruned_at
    /\ \E i \in 1..Len(messages) : messages[i].role = "tool" /\ ~messages[i].pruned_at

\* C16: prune_tool_outputs removes, inserts and reorders nothing and changes
\* no role and no tool_call_id; a message it changes is a tool message that
\* gets the placeholder as content, the recomputed token_count and pruned_at.
C16_PruneFrame ==
    [][ PruneCall
          => /\ Len(messages') = Len(messages)
             /\ \A i \in 1..Len(messages) :
                  /\ messages'[i].role = messages[i].role
                  /\ messages'[i].tool_call_id = messages[i].tool_call_id
                  /\ messages'[i].tool_calls = messages[i].tool_calls
                  /\ messages[i].role # "tool" => messages'[i] = messages[i]
                  /\ messages'[i] # messages[i]
                        => /\ messages'[i].content = Placeholder
                           /\ messages'[i].token_count = count_tokens(Placeholder)
                           /\ messages'[i].pruned_at ]_vars

C16_Witness ==
    /\ pc = "pruned"
    /\ \E i, j, k \in 1..Len(messages) :
          /\ i < j /\ j < k
          /\ messages[i].role = "user"
          /\ messages[j].pruned_at /\ messages[j].tool_call_id # NoId
          /\ messages[k].role = "assistant"

\* C17: with fewer than two user messages in the history prune_tool_outputs
\* returns 0 and leaves every message unchanged, however large the tool
\* outputs are.
C17_FewUserMessagesNoPrune ==
    [][ (PruneCall /\ UserCount(messages) < 2)
          => /\ messages' = messages
             /\ pruned_count(messages) = 0 ]_vars

C17_Witness ==
    /\ pc = "pruned"
    /\ UserCount(messages) = 1
    /\ Cardinality({i \in ToolIndices(messages) :
            /\ messages[i].tool_call_id # NoId
            /\ messages[i].content = <<"large output">>}) >= 3

\* C18: prune_tool_outputs modifies the history only if the candidates'
\* combined token count strictly exceeds 20,000; with 20,000 or fewer nothing
\* is pruned and 0 is returned.
C18_PrunesOnlyAboveMinimum ==
    [][ (PruneCall /\ SumTokens(messages, Candidates(messages)) <= 20000)
          => /\ messages' = messages
             /\ pruned_count(messages) = 0 ]_vars

\* C19: prune_tool_outputs never prunes a tool message whose token count plus
\* that of all newer tool messages is at most 40,000.
C19_ProtectBudgetKept ==
    [][ PruneCall
          => \A i \in ToolIndices(messages) :
                TokensFrom(messages, i) <= 40000 => messages'[i] = messages[i] ]_vars

C19_Witness ==
    /\ pc = "pruned"
    /\ \E i, j \in ToolIndices(messages) :
          /\ i < j
          /\ messages[i].pruned_at
          /\ messages[j].content = <<"medium output">>
          /\ TokensFrom(messages, j) = 40000

-----------------------------------------------------------------------------
(* Claims about the loop detector (checked under SpecDetector).            *)

LastThreeIdentical ==
    /\ Len(history) >= 3
    /\ history[Len(history)] = history[Len(history) - 1]
    /\ history[Len(history)] = history[Len(history) - 2]

(* The most recent n signatures equal the n signatures before them.        *)
RepeatsBlock(n) ==
    /\ Len(history) >= 2 * n
    /\ \A i \in 0..(n - 1) :
            history[Len(history) - i] = history[Len(history) - n - i]

CycleReports ==
    {"Detected repeating cycle of length 2", "Detected repeating cycle of length 3"}

\* C21: check_for_loop reports an exact repeat exactly when at least three
\* signatures are recorded and the three most recent ones are identical,
\* whatever the older entries are.
C21_ExactRepeatOnLastThree ==
    pc = "checked"
        => (loop_detection_error = "Same action repeated" <=> LastThreeIdentical)

C21_Witness ==
    /\ pc = "checked"
    /\ loop_detection_error = "Same action repeated"
    /\ Len(history) = 7
    /\ history[1] # history[2]
    /\ history[4] # history[5]

\* C22: for each cycle length L in {2, 3}, when the history holds at least 2L
\* signatures and the most recent L equal the L before them, check_for_loop
\* reports a cycle; [A, B, A, B] yields a cycle of length 2.
C22_CycleReportedFromTwoBlocks ==
    pc = "checked"
        => /\ \A n \in {2, 3} :
                (RepeatsBlock(n) /\ ~LastThreeIdentical)
                    => loop_detection_error \in CycleReports
           /\ (Len(history) = 4 /\ RepeatsBlock(2) /\ history[1] # history[2])
                    => loop_detection_error = "Detected repeating cycle of length 2"

-----------------------------------------------------------------------------
(* Claims about loop detection in the loop (checked under SpecRepeat).     *)

(* The step ends a tool batch for which check_for_loop reports something.  *)
DetectionAtBatchEnd ==
    /\ pc = "tools"
    /\ ipc = "idle"
    /\ idx > Len(tool_calls)
    /\ check_for_loop(history) # NoValue

IsLoopBreaker(msg) ==
    /\ msg.role = "user"
    /\ msg.content # <<>>
    /\ msg.content[1] = "loop breaker: "

LoopBreakers(msgs) == {i \in 1..Len(msgs) : IsLoopBreaker(msgs[i])}

(* The step is the model call of the turn after a detection.               *)
ModelCallAfterDetection ==
    pc = "turn" /\ pc' = "stream" /\ loop_detection_error # NoValue

AppendsOneLoopBreaker ==
    /\ Len(messages') = Len(messages) + Len(tool_call_results) + 1
    /\ IsLoopBreaker(messages'[Len(messages')])
    /\ messages'[Len(messages')].content[2] = check_for_loop(history)
    /\ UserCount(messages') = UserCount(messages) + 1
    /\ \A i \in 1..Len(tool_call_results) :
            messages'[Len(messages) + i].role = "tool"
    /\ pc' = "turn"
    /\ turn_num' = turn_num + 1
    /\ events' = events

\* C23 as stated: a report of check_for_loop after a tool batch makes the loop
\* append exactly one loop-breaker user message and go on to the next turn,
\* and that message is in the history sent with the next model call.
C23_LoopBreakerSentWithNextCall ==
    [][ /\ DetectionAtBatchEnd => AppendsOneLoopBreaker
        /\ ModelCallAfterDetection
            => /\ IsLoopBreaker(messages'[Len(messages')])
               /\ model_calls' = model_calls + 1 ]_vars

\* C23, amended: a report of check_for_loop after a tool batch makes the loop
\* append exactly one loop-breaker user message and go on to the next turn;
\* that message is the last of the history sent with the next model call
\* unless that turn starts with a successful compaction, which replaces the
\* history by the three messages of the summary.
C23_LoopBreakerAppendedAndLoopContinues ==
    [][ /\ DetectionAtBatchEnd => AppendsOneLoopBreaker
        /\ ModelCallAfterDetection
            => /\ \/ IsLoopBreaker(messages'[Len(messages')])
                  \/ CompactionSucceeded /\ Len(messages') = 3
               /\ model_calls' = model_calls + 1 ]_vars

C23_Witness ==
    /\ pc = "stream"
    /\ model_calls = 2
    /\ loop_detection_error = "Same action repeated"
    /\ Cardinality(LoopBreakers(messages)) = 1
    /\ IsLoopBreaker(messages[Len(messages)])

(* No compaction has replaced the history of this run: the task is still *)
(* its first message.                                                    *)
NoCompactionInRun ==
    /\ messages # <<>>
    /\ messages[1].content = <<"task">>

\* C24: after a run in which no compaction occurred, the cumulative usage of
\* the Context Store has grown, in each counter, by exactly the sum of the
\* usage reports of the model calls of the run.
C24_CumulativeUsageIsSumOfReports ==
    (RunOver /\ NoCompactionInRun) => total_usage = reported_usage

(* The same, for the runs in which no call of invoke raises. *)
C24_WithoutFault ==
    (pc = "done" /\ NoCompactionInRun) => total_usage = reported_usage

(* A run of two model calls, both reporting usage, without compaction. *)
C24_TwoReportsRecorded ==
    /\ pc = "done"
    /\ NoCompactionInRun
    /\ model_calls = 2
    /\ reported_usage.total_tokens = 410000
    /\ total_usage = reported_usage

(* The fields of the attempted call that its tool's schema rejects. *)
InvalidFields ==
    IF get(inv.name) = NoValue THEN {}
    ELSE validate_params(inv.name, inv.params)

StepsTaken == {steps[i] : i \in 1..Len(steps)}

\* C25: when the tool name is not registered or the parameters fail the
\* schema validation, invoke returns a result with success = false and does
\* not raise, never calls get_confirmation or execute, and a validation
\* failure carries one error message per invalid field.
C25_UnknownOrInvalidIsErrorResult ==
    (get(inv.name) = NoValue \/ InvalidFields # {})
        => /\ ipc \in {"resolve", "validate", "returned"}
           /\ "get_confirmation" \notin StepsTaken
           /\ "execute" \notin StepsTaken
           /\ ipc = "returned"
                => /\ result.success = FALSE
                   /\ steps[Len(steps)] = "after_tool"
                   /\ InvalidFields # {}
                        => result.validation_errors = InvalidFields

(* An edit call without path and new_string has returned its two errors. *)
C25_Witness ==
    /\ ipc = "returned"
    /\ inv.name = "edit"
    /\ InvalidFields = {"path", "new_string"}
    /\ result.success = FALSE
    /\ Cardinality(result.validation_errors) = 2

(* A shell call whose timeout is out of range has returned one error. *)
C25_OutOfRangeRejected ==
    /\ ipc = "returned"
    /\ inv.name = "shell"
    /\ result.success = FALSE
    /\ InvalidFields = {"timeout"}

(* The confirmation callback was asked and returned false. *)
Declined == decision = NEEDS_CONFIRMATION /\ approved = <<FALSE>>

\* C26: when check_approval returns REJECTED, or returns NEEDS_CONFIRMATION
\* and the confirmation callback returns false, invoke returns a result with
\* success = false and execute is never called for that invocation.
C26_RejectedOrDeclinedNeverExecutes ==
    (decision = REJECTED \/ Declined)
        => /\ ipc = "returned"
           /\ result.success = FALSE
           /\ "execute" \notin StepsTaken

(* The callback declined a write_file call and invoke returned the error. *)
C26_Witness ==
    /\ Declined
    /\ has_callback
    /\ inv.name = "write_file"
    /\ ipc = "returned"
    /\ result.error = "User rejected the operation"
    /\ steps[Len(steps)] = "after_tool"

(* check_approval rejected a call and invoke returned the error. *)
C26_RejectedReturned ==
    /\ decision = REJECTED
    /\ ipc = "returned"
    /\ result.error = "Operation rejected by safety policy"

\* C27: when the tool's execute raises, invoke does not propagate the
\* exception: it returns a result with success = false whose error text
\* carries the exception's message, and fires after_tool once with that
\* result.
C27_ExecuteFaultBecomesErrorResult ==
    fault # <<>>
        => /\ ipc \in {"after", "returned"}
           /\ result.success = FALSE
           /\ <<fault[1], result.error>> \in
                {<<"disk full", "Internal error: disk full">>,
                 <<"permission denied", "Internal error: permission denied">>,
                 <<"no such process", "Internal error: no such process">>}
           /\ steps[Len(steps)] \in {"execute", "after_tool"}
           /\ ipc = "returned"
                => /\ steps[Len(steps)] = "after_tool"
                   /\ Cardinality({i \in 1..Len(steps) : steps[i] = "after_tool"}) = 1

(* execute raised "disk full" and invoke has returned the error result. *)
C27_Witness ==
    /\ fault = <<"disk full">>
    /\ ipc = "returned"
    /\ result.error = "Internal error: disk full"
    /\ steps[Len(steps)] = "after_tool"

(* The same for a tool that does not write. *)
C27_PermissionDeniedReturned ==
    /\ fault = <<"permission denied">>
    /\ ipc = "returned"
    /\ result.error = "Internal error: permission denied"

RejectionTexts ==
    {"Operation rejected by safety policy", "User rejected the operation"}

\* C28: when check_approval yields NEEDS_CONFIRMATION and no confirmation
\* callback is configured, request_confirmation returns true and invoke goes
\* on to execute the tool: it does not stay at the confirmation and never
\* returns a rejection result.
C28_NoCallbackMeansApproved ==
    (decision = NEEDS_CONFIRMATION /\ ~has_callback)
        => /\ approved = <<TRUE>>
           /\ ipc \in {"execute", "after", "returned"}
           /\ ipc \in {"after", "returned"} => "execute" \in StepsTaken
           /\ ipc = "returned" => result.error \notin RejectionTexts

(* A write_file call that needed confirmation ran without a callback. *)
C28_Witness ==
    /\ decision = NEEDS_CONFIRMATION
    /\ ~has_callback
    /\ inv.name = "write_file"
    /\ ipc = "returned"
    /\ "request_confirmation" \in StepsTaken
    /\ "execute" \in StepsTaken
    /\ result.success

\* C29: for a mutating action with no command, every affected path inside
\* the working directory and is_dangerous set, check_approval returns
\* NEEDS_CONFIRMATION under every policy except YOLO, and APPROVED under YOLO.
C29_DangerousFlagNeedsConfirmation ==
    (Decided /\ ctx.is_mutating /\ ~HasCommand /\ ~HasOutsidePath /\ ctx.is_dangerous)
        => decision = IF approval_policy = YOLO THEN APPROVED
                      ELSE NEEDS_CONFIRMATION

(* Overwriting a file of the working directory under AUTO. *)
C29_Witness ==
    /\ Decided
    /\ approval_policy = AUTO
    /\ ctx.is_mutating
    /\ ctx.command = CmdNone
    /\ ctx.affected_paths = <<"/work/a.txt", "/work/sub/b.txt">>
    /\ ctx.is_dangerous
    /\ decision = NEEDS_CONFIRMATION

(* The same under YOLO. *)
C29_ApprovedUnderYolo ==
    /\ Decided
    /\ approval_policy = YOLO
    /\ ctx.is_mutating
    /\ ~HasCommand
    /\ ctx.affected_paths = <<"/work/a.txt">>
    /\ ctx.is_dangerous
    /\ decision = APPROVED

(* The fields of a message that a resumed session must give back. *)
SavedFields(msg) ==
    [role |-> msg.role, content |-> msg.content, tool_call_id |-> msg.tool_call_id]

\* C30: saving a session and resuming it gives a Context Store whose
\* messages are in the same order with the same role, content and
\* tool_call_id as before the save, and the same turn count and cumulative
\* usage.
C30_ResumeRestoresSavedSession ==
    [][ (pc = "saved" /\ pc' = "resumed")
          => /\ Len(messages') = Len(messages)
             /\ \A i \in 1..Len(messages) :
                    SavedFields(messages'[i]) = SavedFields(messages[i])
             /\ turn_count' = turn_count
             /\ total_usage' = total_usage ]_vars

(* A resumed session of two turns whose history holds an assistant        *)
(* message without text, a tool result under the call's id and one under  *)
(* the empty id.                                                           *)
C30_Witness ==
    /\ pc = "resumed"
    /\ Len(messages) = MaxSaved
    /\ turn_count = 2
    /\ total_usage.total_tokens = 410000
    /\ \E i \in 1..Len(messages) :
            messages[i].role = "assistant" /\ messages[i].content = <<>>
    /\ \E i, j \in 1..Len(messages) :
            /\ messages[i].role = "tool" /\ messages[i].tool_call_id = <<1, 1>>
            /\ messages[j].role = "tool" /\ messages[j].tool_call_id = EmptyId

\* C31: when allowed_tools is set, invoke never executes a tool whose name
\* is not in the list, even if the model requests it by name.
C31_OnlyAllowedToolsExecuted ==
    (allowed_tools # <<>> /\ "execute" \in StepsTaken)
        => inv.name \in get_tools(allowed_tools)

(* The same for a registry whose configuration does not restrict tools. *)
C31_UnrestrictedExecutesRegistered ==
    (allowed_tools = <<>> /\ "execute" \in StepsTaken)
        => inv.name \in get_tools(allowed_tools)

(* What lies between before_tool and execute in this call of invoke. *)
ApprovalSteps ==
    IF ~inv.approval_manager THEN <<>>
    ELSE IF confirmation = None THEN <<"get_confirmation">>
    ELSE IF decision = NEEDS_CONFIRMATION
        THEN <<"get_confirmation", "check_approval", "request_confirmation">>
    ELSE <<"get_confirmation", "check_approval">>

StepsToExecute ==
    <<"get", "validate_params", "before_tool">> \o ApprovalSteps \o <<"execute">>

\* C32: in a call of invoke that reaches execution the steps are, in this
\* order: name resolution, parameter validation, before_tool, the tool's
\* get_confirmation and the approval decision (with the confirmation callback
\* when needed), execute, after_tool; and after_tool is given the result that
\* invoke returns.
C32_PipelineOrder ==
    "execute" \in StepsTaken
        => /\ ipc \in {"after", "returned"}
           /\ ipc = "after" => steps = StepsToExecute
           /\ ipc = "returned"
                => /\ steps = StepsToExecute \o <<"after_tool">>
                   /\ after_tool_result = result

(* A confirmed write_file call has gone through all seven steps. *)
C32_Witness ==
    /\ ipc = "returned"
    /\ inv.name = "write_file"
    /\ has_callback
    /\ steps = <<"get", "validate_params", "before_tool", "get_confirmation",
                 "check_approval", "request_confirmation", "execute", "after_tool">>
    /\ result.success
    /\ after_tool_result = result

\* C33: when the tool's get_confirmation raises, invoke does not raise: it
\* returns a result with success = false and fires after_tool.
C33_ConfirmationFaultBecomesErrorResult ==
    confirmation = Raises
        => /\ ipc = "returned"
           /\ result.success = FALSE
           /\ steps[Len(steps)] = "after_tool"

(* Every call of invoke in which get_confirmation does not raise ends by  *)
(* returning a result that after_tool was given.                          *)
C33_WithoutConfirmationFault ==
    (InvokeOver /\ confirmation # Raises)
        => /\ ipc = "returned"
           /\ after_tool_result = result


(* ---- C34 ---- *)
RetryableErrors == {"Rate limit exceeded", "Connection error"}

ErrorAppended ==
    /\ Len(events') > Len(events)
    /\ events'[Len(events')].type = "agent_error"

(* C34: chat_completion makes at most four attempts at a call that fails   *)
(* with a rate-limit or connection error, sleeping 1, 2 and 4 seconds      *)
(* between them; its one error event comes only when the fourth attempt    *)
(* has failed and ends the sequence; any other API error gives one error   *)
(* event whatever the attempt; a retry delivers no event; and nothing      *)
(* follows the end of a successful attempt.                                *)
C34_RetriesThenOneError ==
    [][ pc = "stream"
            => /\ attempt \in 0..3
               /\ slept = SubSeq(<<1, 2, 4>>, 1, attempt)
               /\ attempt' # attempt /\ pc' = "stream"
                    => /\ attempt' = attempt + 1
                       /\ slept' = SubSeq(<<1, 2, 4>>, 1, attempt + 1)
                       /\ events' = events
               /\ ErrorAppended
                    => /\ events' = Append(events, events'[Len(events')])
                       /\ pc' = "assistant"
                       /\ events'[Len(events')].info \in RetryableErrors
                            => attempt = 3 /\ slept = <<1, 2, 4>>
               /\ pc' # "stream"
                    => /\ pc' = "assistant"
                       /\ ~ErrorAppended => events' = events ]_vars

C34_Witness ==
    /\ pc = "stream"
    /\ attempt = 3
    /\ slept = <<1, 2, 4>>
    /\ response_text # <<>>


(* ---- C35 ---- *)
Made(call) == {i \in 1..Len(process) : process[i] = call}

(* The timeout of the shell command elapsed: the handler at shell.py 108   *)
(* was entered.                                                            *)
TimeoutElapsed == Made("getpgid") # {}

(* C35: when a shell command exceeds its timeout, the process group of    *)
(* the command is killed and the result has success = false and names the *)
(* timeout; the command is spawned at most once per invocation.           *)
C35_TimeoutKillsGroupAndReports ==
    /\ Cardinality(Made("create_subprocess_exec")) <= 1
    /\ TimeoutElapsed
        => /\ Made("killpg") # {}
           /\ result.success = FALSE
           /\ <<TimeoutOf(inv.params), result.error>> \in
                {<<120, "Command timed out after 120s">>,
                 <<30, "Command timed out after 30s">>}

(* An invocation never spawns the command twice, and a timeout that finds *)
(* the shell still running kills its group, waits for it and reports the  *)
(* timeout.                                                                *)
C35_SpawnedOnceAndLiveShellKilled ==
    /\ Cardinality(Made("create_subprocess_exec")) <= 1
    /\ (TimeoutElapsed /\ fault = <<>>)
        => /\ process = <<"create_subprocess_exec", "communicate", "getpgid",
                          "killpg", "wait">>
           /\ result.success = FALSE
           /\ <<TimeoutOf(inv.params), result.error>> \in
                {<<120, "Command timed out after 120s">>,
                 <<30, "Command timed out after 30s">>}

C35_TimeoutReported ==
    ~(TimeoutElapsed /\ fault = <<>> /\ ipc = "returned"
        /\ TimeoutOf(inv.params) = 30)

(* ---- C36 ---- *)
(* The commands of the alphabet that contain an entry of BLOCKED_COMMANDS *)
(* are those of BlockedAsWritten.                                          *)
Spawned == Made("create_subprocess_exec") # {}

(* C36: a shell command that contains an entry of BLOCKED_COMMANDS is     *)
(* never run as a subprocess, whatever the policy and the callback.       *)
C36_BlockedCommandNeverSpawned ==
    (inv.name = "shell" /\ "command" \in DOMAIN inv.params
        /\ inv.params.command \in BlockedAsWritten)
        => ~Spawned

(* The commands that still contain a blocked entry once lowered are never *)
(* spawned.                                                                *)
C36_BlockedWhenLoweredNeverSpawned ==
    (inv.name = "shell" /\ "command" \in DOMAIN inv.params
        /\ inv.params.command \in BlockedLowered)
        => ~Spawned

C36_BlockedUnderYolo ==
    ~(/\ inv.name = "shell"
      /\ "command" \in DOMAIN inv.params
      /\ inv.params.command = "rm -rf /"
      /\ approval_policy = YOLO
      /\ ipc = "returned"
      /\ result.error = "Command blocked for safety")


(* ---- C37 ---- *)
IdentifiedToolMessages(msgs) ==
    {i \in ToolIndices(msgs) : msgs[i].tool_call_id # NoId}

(* The pruned messages among those of indices are the oldest ones.        *)
PrunedOldestFirst(msgs, indices) ==
    \A i, j \in indices : (i < j /\ msgs[j].pruned_at) => msgs[i].pruned_at

(* No step changes or removes a pruned message.                           *)
PrunedKept(before, after) ==
    \A i \in 1..Len(before) :
        before[i].pruned_at => (i <= Len(after) /\ after[i] = before[i])

(* C37: after any sequence of appends and prune_tool_outputs calls the    *)
(* pruned tool messages are an oldest-first prefix of the tool messages,  *)
(* and a pruned message is never modified again.                          *)
C37_PrunedIsOldestPrefix ==
    [][ /\ PrunedOldestFirst(messages', ToolIndices(messages'))
        /\ PrunedKept(messages, messages') ]_vars

(* The same over the tool messages that carry a tool_call_id.             *)
C37_PrunedIsPrefixOfIdentified ==
    [][ /\ PrunedOldestFirst(messages', IdentifiedToolMessages(messages'))
        /\ \A i \in 1..Len(messages') :
                messages'[i].pruned_at => i \in IdentifiedToolMessages(messages')
        /\ PrunedKept(messages, messages') ]_vars

C37_SecondPruneReached ==
    ~(/\ pc = "pruned"
      /\ Cardinality({i \in ToolIndices(messages) : messages[i].pruned_at}) >= 2
      /\ \E i \in ToolIndices(messages) : ~messages[i].pruned_at)


(* ---- C38 ---- *)
(* The assistant message at j is followed by one tool message per entry   *)
(* of its tool_calls, in their order, and then by no further tool message. *)
Answered(msgs, j) ==
    LET n == Len(msgs[j].tool_calls)
    IN  /\ j + n <= Len(msgs)
        /\ \A k \in 1..n :
                /\ msgs[j + k].role = "tool"
                /\ msgs[j + k].tool_call_id = msgs[j].tool_calls[k].id
        /\ j + n < Len(msgs) => msgs[j + n + 1].role # "tool"

AllAnswered(msgs) ==
    \A j \in 1..Len(msgs) :
        (msgs[j].role = "assistant" /\ msgs[j].tool_calls # <<>>)
            => Answered(msgs, j)

(* Every loop-breaker message comes right after the last tool message of  *)
(* a batch.                                                                *)
LoopBreakersAfterBatch(msgs) ==
    \A i \in LoopBreakers(msgs) : i > 1 /\ msgs[i - 1].role = "tool"

(* C38: at every turn boundary (the loop is between two turns, or has     *)
(* returned or used up its turns) each assistant message with tool_calls  *)
(* is immediately followed by exactly one tool message per call, in the   *)
(* order of the calls, and the loop-breaker message comes only after the  *)
(* tool messages of its turn.                                             *)
C38_ToolCallsAnsweredInOrder ==
    BetweenTurns
        => /\ AllAnswered(messages)
           /\ LoopBreakersAfterBatch(messages)

C38_Witness ==
    /\ pc = "turn"
    /\ LoopBreakers(messages) # {}
    /\ \E i, j \in 1..Len(messages) :
            /\ i < j
            /\ messages[i].role = "assistant" /\ Len(messages[i].tool_calls) = 2
            /\ messages[j].role = "assistant" /\ Len(messages[j].tool_calls) = 2


(* ---- C39 ---- *)
(* The step ends a successful attempt: the stream is over and no error    *)
(* event was delivered.                                                    *)
AttemptSucceeds == pc = "stream" /\ pc' = "assistant" /\ events' = events

(* C39: when a chat_completion call succeeds, the text delivered to the   *)
(* loop is the text of the successful attempt alone.                       *)
C39_DeliveredIsSuccessfulAttempt ==
    [][ AttemptSucceeds => response_text = attempt_events ]_vars

(* A call that succeeds at its first attempt delivers that attempt's text, *)
(* and what a later attempt yields is always the end of what was           *)
(* delivered.                                                              *)
C39_FirstAttemptDelivered ==
    [][ AttemptSucceeds
            => /\ attempt = 0 => response_text = attempt_events
               /\ Len(attempt_events) <= Len(response_text)
               /\ attempt_events =
                    SubSeq(response_text,
                           Len(response_text) - Len(attempt_events) + 1,
                           Len(response_text)) ]_vars

C39_SucceedsAfterRetry ==
    ~(pc = "stream" /\ attempt > 0 /\ attempt_events # <<>>)


-----------------------------------------------------------------------------
(* MCPManager: initialize and register_tools.                              *)

DISCONNECTED == "disconnected"
CONNECTING == "connecting"
CONNECTED == "connected"
ERROR == "error"

Servers == {"fs", "web", "db"}

(* What list_tools gives for each server.                                  *)
ServerTools(name) ==
    CASE name = "fs" -> {"read", "write"}
      [] name = "web" -> {"fetch"}
      [] name = "db" -> {}

(* Config.mcp_servers: a dict from the name to its enabled flag.           *)
McpConfigs == UNION {[S -> BOOLEAN] : S \in SUBSET Servers}

(* MCPClient.__init__, with the state of the client's connection task.     *)
MCPClient == [status |-> DISCONNECTED, tools |-> {}, task |-> "pending"]

InitMcp ==
    /\ approval_policy = ON_REQUEST
    /\ has_callback = FALSE
    /\ allowed_tools = <<>>
    /\ ctx = None
    /\ decision = NoValue
    /\ InvokeIdle
    /\ messages = <<>>
    /\ latest_usage = ZeroUsage
    /\ total_usage = ZeroUsage
    /\ history = <<>>
    /\ attempt = 0
    /\ pc = "mcp"
    /\ max_turns = 0
    /\ turn_num = 0
    /\ response_text = <<>>
    /\ tool_calls = <<>>
    /\ usage = None
    /\ idx = 0
    /\ tool_call_results = <<>>
    /\ model_calls = 0
    /\ loop_detection_error = NoValue
    /\ reported_usage = ZeroUsage
    /\ turn_count = 0
    /\ session_file = None
    /\ slept = <<>>
    /\ attempt_events = <<>>
    /\ events = <<>>
    /\ mcp_servers \in McpConfigs
    /\ clients = <<>>
    /\ initialized = FALSE
    /\ registered = <<>>

McpRest == <<approvalVars, invokeVars, contextVars, max_turns, turn_num, turnVars,
             model_calls, events, attempt, history, loop_detection_error,
             reported_usage, turn_count, session_file, slept, attempt_events>>

\* mcp_manager.py 15-40: nothing to do, or one client per enabled server and
\* one connection task per client
McpInitialize ==
    /\ pc = "mcp"
    /\ IF initialized \/ DOMAIN mcp_servers = {}
        THEN /\ pc' = "mcp_ready"
             /\ UNCHANGED clients
        ELSE /\ clients' = [n \in {m \in DOMAIN mcp_servers : mcp_servers[m]}
                                |-> MCPClient]
             /\ pc' = "mcp_gather"
    /\ UNCHANGED <<McpRest, mcp_servers, initialized, registered>>

\* client.py 62-66: connect begins
McpConnect ==
    /\ pc = "mcp_gather"
    /\ \E n \in DOMAIN clients :
        /\ clients[n].task = "pending"
        /\ clients' = [clients EXCEPT ![n] =
                IF @.status = CONNECTED THEN [@ EXCEPT !.task = "done"]
                ELSE [@ EXCEPT !.status = CONNECTING, !.task = "running"]]
    /\ UNCHANGED <<McpRest, pc, mcp_servers, initialized, registered>>

\* client.py 68-85: the transport connects and list_tools answers
McpConnected ==
    /\ pc = "mcp_gather"
    /\ \E n \in DOMAIN clients :
        /\ clients[n].task = "running"
        /\ clients' = [clients EXCEPT ![n] =
                [status |-> CONNECTED, tools |-> ServerTools(n), task |-> "done"]]
    /\ UNCHANGED <<McpRest, pc, mcp_servers, initialized, registered>>

\* client.py 86-88: __aenter__ or list_tools raises an Exception
McpConnectError ==
    /\ pc = "mcp_gather"
    /\ \E n \in DOMAIN clients :
        /\ clients[n].task = "running"
        /\ clients' = [clients EXCEPT ![n] = [@ EXCEPT !.status = ERROR, !.task = "done"]]
    /\ UNCHANGED <<McpRest, pc, mcp_servers, initialized, registered>>

(* mcp_manager.py 33-39 and client.py 86-88: wait_for cancels connect at   *)
(* its await; CancelledError is a BaseException, `except Exception` does   *)
(* not catch it, and the status stays as connect left it.                   *)
Cancelled(client) == [client EXCEPT !.task = "done"]

\* mcp_manager.py 34-37: startup_timeout_sec elapses before connect is over
McpStartupTimeout ==
    /\ pc = "mcp_gather"
    /\ \E n \in DOMAIN clients :
        /\ clients[n].task = "running"
        /\ clients' = [clients EXCEPT ![n] = Cancelled(@)]
    /\ UNCHANGED <<McpRest, pc, mcp_servers, initialized, registered>>

\* mcp_manager.py 41-43: gather returns when every task is over
McpGathered ==
    /\ pc = "mcp_gather"
    /\ \A n \in DOMAIN clients : clients[n].task = "done"
    /\ initialized' = TRUE
    /\ pc' = "mcp_ready"
    /\ UNCHANGED <<McpRest, mcp_servers, clients, registered>>

(* mcp_manager.py 45-61: the tools registered, as (client name, tool name) *)
RegisteredFrom(cs) ==
    UNION {{<<n, t>> : t \in cs[n].tools} :
            n \in {m \in DOMAIN cs : cs[m].status = CONNECTED}}

\* mcp_manager.py 45-61
McpRegisterTools ==
    /\ pc = "mcp_ready"
    /\ registered' = <<RegisteredFrom(clients)>>
    /\ pc' = "mcp_registered"
    /\ UNCHANGED <<McpRest, mcp_servers, clients, initialized>>

NextMcp ==
    \/ McpInitialize
    \/ McpConnect
    \/ McpConnected
    \/ McpConnectError
    \/ McpStartupTimeout
    \/ McpGathered
    \/ McpRegisterTools

SpecMcp == InitMcp /\ [][NextMcp]_vars

(* ---- C40 ---- *)
InitializeReturned == pc \in {"mcp_ready", "mcp_registered"}

(* C40: after initialize has returned, every enabled client is CONNECTED  *)
(* or ERROR, also when its connection hit the startup timeout, and        *)
(* register_tools registers tools of CONNECTED clients only.              *)
C40_ClientsSettledAfterInitialize ==
    InitializeReturned
        => /\ \A n \in DOMAIN clients : clients[n].status \in {CONNECTED, ERROR}
           /\ registered # <<>>
                => \A e \in registered[1] : clients[e[1]].status = CONNECTED

(* After initialize has returned no connection task is left running, a    *)
(* client is CONNECTING only if its task was cancelled, and the tools     *)
(* registered are exactly the tools of the CONNECTED clients.             *)
C40_RegistersConnectedOnly ==
    InitializeReturned
        => /\ \A n \in DOMAIN clients :
                /\ clients[n].task = "done"
                /\ clients[n].status \in {CONNECTED, ERROR, CONNECTING}
                /\ clients[n].status # CONNECTED => clients[n].tools = {}
           /\ DOMAIN clients = {m \in DOMAIN mcp_servers : mcp_servers[m]}
                \/ DOMAIN mcp_servers = {}
           /\ registered # <<>>
                => registered[1] =
                     UNION {{<<n, t>> : t \in ServerTools(n)} :
                            n \in {m \in DOMAIN clients :
                                        clients[m].status = CONNECTED}}

C40_RegisteredWithOneFailed ==
    ~(/\ pc = "mcp_registered"
      /\ registered = <<{<<"web", "fetch">>}>>
      /\ "fs" \in DOMAIN clients
      /\ clients["fs"].status = ERROR)

====
